---------------------------- MODULE Spec2Model ----------------------------
(***************************************************************************)
(* Rule-based investment-advice engine and backtest (executor, engine,     *)
(* signal generator, metrics) of PortfolioAgent (core/services/advice,     *)
(* core/services/backtest).                                                *)
(*                                                                         *)
(* Numbers.  Prices, moving averages, bias (in percent), capital and       *)
(* weights are integers; volume_ratio is held in tenths (1.0 is 10).       *)
(* Every comparison of the source is evaluated exactly on these values;    *)
(* binary floating-point rounding of non-integer inputs is not modelled.   *)
(*                                                                         *)
(* Python values.  A dict value is a tagged record: Num(n) or None.  A     *)
(* dict is a function whose DOMAIN is the set of keys present.  A call     *)
(* returns Ret(v) or Raise(e), e the exception class name.                 *)
(***************************************************************************)
EXTENDS Integers, Sequences, FiniteSets, TLC

VARIABLES
    op,             \* name of the operation that produced this state
    engine_rules,   \* AdviceEngine.rules: the rule list of the engine
    asset_data,     \* dict given to the rules
    indicators,     \* dict given to the rules
    news_context,   \* optional news text (sequence of tokens) or NoNews
    rule_result,    \* what the last single BaseRule.evaluate call returned
    rule_results,   \* the list handed to RuleAggregator.aggregate
    rule_weights,   \* the rule_weights dict handed to aggregate
    advice,         \* what the last aggregate / generate_advice call returned
    bt_result,      \* the BacktestResult handed to MetricsCalculator.calculate
    daily_equity,   \* the equity list handed to MetricsCalculator.calculate
    metrics,        \* what the last MetricsCalculator.calculate call returned
    executor,       \* the BacktestExecutor: capital, positions, trades
    last_trade,     \* what the last execute_signal call returned or raised
    before,         \* the executor as it was before the last call on it
    call,           \* the arguments of the last execute_signal call
    calls,          \* number of calls made on the executor
    backtest,       \* the arguments of the last run_full_backtest call
    advices,        \* the advices handed to the last SignalGenerator call
    generated       \* what the last SignalGenerator call returned

vars == <<op, engine_rules, asset_data, indicators, news_context, rule_result,
          rule_results, rule_weights, advice, bt_result, daily_equity, metrics,
          executor, before, last_trade, call, calls, backtest, advices, generated>>

executor_vars == <<executor, before, last_trade, call, calls>>

backtest_vars == <<executor_vars, backtest>>

generator_vars == <<advices, generated>>

---------------------------------------------------------------------------
(* Python values                                                           *)

Num(n) == [tag |-> "num", v |-> n]

None == [tag |-> "none", v |-> 0]

\* marker used only while enumerating dicts: the key is left out
Absent == [tag |-> "absent", v |-> 0]

IsNone(x) == x.tag = "none"

\* the dict holding the keys of f that are not Absent
MkDict(f) == [k \in {j \in DOMAIN f : f[j].tag # "absent"} |-> f[k]]

EmptyDict == [k \in {} |-> None]

\* dict.get(key, default)
Get(d, key, default) == IF key \in DOMAIN d THEN d[key] ELSE Num(default)

Ret(value) == [exc |-> "", value |-> value]

Raise(e) == [exc |-> e, value |-> <<>>]

\* a comparison of Python: TypeError ("raise") when an operand is None
GT(a, b) == IF IsNone(a) \/ IsNone(b) THEN "raise"
            ELSE IF a.v > b.v THEN "true" ELSE "false"

LT(a, b) == GT(b, a)

GE(a, b) == IF IsNone(a) \/ IsNone(b) THEN "raise"
            ELSE IF a.v >= b.v THEN "true" ELSE "false"

LE(a, b) == GE(b, a)

\* `x and y`: y is evaluated only when x is true
AND(x, y) == IF x = "true" THEN y ELSE x

\* `x or y`: y is evaluated only when x is false
OR(x, y) == IF x = "false" THEN y ELSE x

\* int(a / b) for b > 0: truncation toward zero
TruncDiv(a, b) == IF a >= 0 THEN a \div b ELSE -((-a) \div b)

Abs(x) == IF x < 0 THEN -x ELSE x

---------------------------------------------------------------------------
(* core/domain/advice.py                                                   *)

AdviceType == {"STRONG_BUY", "BUY", "HOLD", "REDUCE", "SELL", "STRONG_SELL", "WAIT"}

ConfidenceLevel == {"HIGH", "MEDIUM", "LOW"}

\* InvestmentAdvice(...): score defaults to 0, the lists to [], source to the
\* class default
InvestmentAdvice(advice_type, confidence, current_price, score, reasons, risk_factors, rule_sources, source) ==
    [advice_type |-> advice_type, confidence |-> confidence,
     current_price |-> current_price, score |-> score, reasons |-> reasons,
     risk_factors |-> risk_factors, rule_sources |-> rule_sources,
     source |-> source]

NoAdvice == InvestmentAdvice("WAIT", "LOW", None, 0, <<>>, <<>>, <<>>, "none")

---------------------------------------------------------------------------
(* core/services/advice/rules                                              *)

RuleResult(rule_name, advice_type, confidence, score, reasons, risk_factors) ==
    [rule_name |-> rule_name, advice_type |-> advice_type,
     confidence |-> confidence, score |-> score, reasons |-> reasons,
     risk_factors |-> risk_factors]

\* TrendRule.evaluate: ordering of MA5, MA10, MA20
TrendRuleEvaluate(a_data, ind, news) ==
    LET ma5  == Get(ind, "ma5", 0)
        ma10 == Get(ind, "ma10", 0)
        ma20 == Get(ind, "ma20", 0)
        R(t, c, s, rs, rf) == Ret(RuleResult("TrendRule", t, c, s, rs, rf))
        c1 == AND(AND(GT(ma5, ma10), GT(ma10, ma20)), GT(ma20, Num(0)))
        c2 == AND(GT(ma5, ma10), LE(ma10, ma20))
        c3 == AND(AND(LT(ma5, ma10), LT(ma10, ma20)), GT(ma5, Num(0)))
        c4 == AND(LT(ma5, ma10), GE(ma10, ma20))
    IN  IF c1 = "raise" THEN Raise("TypeError")
        ELSE IF c1 = "true" THEN
            \* spread = (ma5 - ma20) / ma20 * 100 if ma20 > 0 else 0
            IF ma20.v > 0 /\ (ma5.v - ma20.v) * 100 > 5 * ma20.v
            THEN R("BUY", "HIGH", 40, <<"strong bullish alignment">>, <<>>)
            ELSE R("BUY", "MEDIUM", 35, <<"bullish alignment">>, <<>>)
        ELSE IF c2 = "raise" THEN Raise("TypeError")
        ELSE IF c2 = "true" THEN
            R("HOLD", "MEDIUM", 25, <<"weak bullish">>, <<>>)
        ELSE IF c3 = "raise" THEN Raise("TypeError")
        ELSE IF c3 = "true" THEN
            \* spread = (ma20 - ma5) / ma5 * 100 if ma5 > 0 else 0
            IF ma5.v > 0 /\ (ma20.v - ma5.v) * 100 > 5 * ma5.v
            THEN R("STRONG_SELL", "HIGH", 0, <<>>, <<"strong bearish alignment">>)
            ELSE R("SELL", "MEDIUM", 5, <<>>, <<"bearish alignment">>)
        ELSE IF c4 = "raise" THEN Raise("TypeError")
        ELSE IF c4 = "true" THEN
            R("HOLD", "MEDIUM", 10, <<>>, <<"weak bearish">>)
        ELSE R("WAIT", "LOW", 15, <<"tangled averages">>, <<>>)

BIAS_THRESHOLD == 5

\* faulty variant of BiasRuleEvaluate: the threshold itself still buys
BiasRuleEvaluate_Inclusive(a_data, ind, news) ==
    LET bias_ma5 == Get(ind, "bias_ma5", 0)
        R(t, c, s, rs, rf) == Ret(RuleResult("BiasRule", t, c, s, rs, rf))
        c1 == LT(bias_ma5, Num(0))
    IN  IF c1 = "raise" THEN Raise("TypeError")
        ELSE IF c1 = "true" THEN
            IF bias_ma5.v > -3
            THEN R("BUY", "HIGH", 30, <<"pullback buy point">>, <<>>)
            ELSE IF bias_ma5.v > -5
            THEN R("BUY", "MEDIUM", 25, <<"pullback to MA5">>, <<>>)
            ELSE R("WAIT", "MEDIUM", 10, <<>>, <<"bias too large, may break support">>)
        ELSE IF bias_ma5.v < 2
        THEN R("BUY", "HIGH", 28, <<"price close to MA5">>, <<>>)
        ELSE IF bias_ma5.v <= BIAS_THRESHOLD
        THEN R("BUY", "MEDIUM", 20, <<"price slightly above MA5">>, <<>>)
        ELSE R("WAIT", "HIGH", 5, <<>>, <<"bias exceeds 5%, chasing forbidden">>)

\* BiasRule.evaluate: deviation of the price from MA5, in percent
BiasRuleEvaluate(a_data, ind, news) ==
    LET bias_ma5 == Get(ind, "bias_ma5", 0)
        R(t, c, s, rs, rf) == Ret(RuleResult("BiasRule", t, c, s, rs, rf))
        c1 == LT(bias_ma5, Num(0))
    IN  IF c1 = "raise" THEN Raise("TypeError")
        ELSE IF c1 = "true" THEN
            IF bias_ma5.v > -3
            THEN R("BUY", "HIGH", 30, <<"pullback buy point">>, <<>>)
            ELSE IF bias_ma5.v > -5
            THEN R("BUY", "MEDIUM", 25, <<"pullback to MA5">>, <<>>)
            ELSE R("WAIT", "MEDIUM", 10, <<>>, <<"bias too large, may break support">>)
        ELSE IF bias_ma5.v < 2
        THEN R("BUY", "HIGH", 28, <<"price close to MA5">>, <<>>)
        ELSE IF bias_ma5.v < BIAS_THRESHOLD
        THEN R("BUY", "MEDIUM", 20, <<"price slightly above MA5">>, <<>>)
        ELSE R("WAIT", "HIGH", 5, <<>>, <<"bias exceeds 5%, chasing forbidden">>)

\* tenths
VOLUME_SHRINK_RATIO == 7

\* tenths
VOLUME_HEAVY_RATIO == 15

\* indicators.get("volume_ratio", 1.0), in tenths
VOLUME_RATIO_DEFAULT == 10

\* VolumeRule.evaluate: volume against its 5-day average and the day's change
VolumeRuleEvaluate(a_data, ind, news) ==
    LET volume_ratio     == Get(ind, "volume_ratio", VOLUME_RATIO_DEFAULT)
        price_change_pct == Get(a_data, "price_change_pct", 0)
        R(t, c, s, rs, rf) == Ret(RuleResult("VolumeRule", t, c, s, rs, rf))
        heavy  == GE(volume_ratio, Num(VOLUME_HEAVY_RATIO))
        shrink == LE(volume_ratio, Num(VOLUME_SHRINK_RATIO))
        up     == GT(price_change_pct, Num(0))
    IN  IF heavy = "raise" THEN Raise("TypeError")
        ELSE IF heavy = "true" THEN
            IF up = "raise" THEN Raise("TypeError")
            ELSE IF up = "true"
            THEN R("BUY", "MEDIUM", 15, <<"heavy volume rise">>, <<>>)
            ELSE R("SELL", "HIGH", 0, <<>>, <<"heavy volume fall">>)
        ELSE IF shrink = "true" THEN
            IF up = "raise" THEN Raise("TypeError")
            ELSE IF up = "true"
            THEN R("HOLD", "LOW", 8, <<"light volume rise">>, <<>>)
            ELSE R("BUY", "HIGH", 20, <<"light volume pullback">>, <<>>)
        ELSE R("HOLD", "MEDIUM", 12, <<"normal volume">>, <<>>)

\* percent
MA_SUPPORT_TOLERANCE == 2

\* faulty variant of SupportAt: the price must be strictly above the average
SupportAt_Strict(current_price, ma) ==
    LET pos == GT(ma, Num(0))
    IN  IF pos = "raise" THEN "raise"
        ELSE IF pos = "false" THEN "false"
        ELSE IF IsNone(current_price) THEN "raise"
        ELSE IF 100 * Abs(current_price.v - ma.v) <= MA_SUPPORT_TOLERANCE * ma.v
                /\ current_price.v > ma.v
        THEN "true" ELSE "false"

\* one `if maX > 0:` block of SupportRule.evaluate: "raise", "true" (support
\* holds) or "false"
SupportAt(current_price, ma) ==
    LET pos == GT(ma, Num(0))
    IN  IF pos = "raise" THEN "raise"
        ELSE IF pos = "false" THEN "false"
        \* abs(current_price - ma) / ma
        ELSE IF IsNone(current_price) THEN "raise"
        ELSE IF 100 * Abs(current_price.v - ma.v) <= MA_SUPPORT_TOLERANCE * ma.v
                /\ current_price.v >= ma.v
        THEN "true" ELSE "false"

\* SupportRule.evaluate: price sitting on MA5 / MA10, or below MA20
SupportRuleEvaluate(a_data, ind, news) ==
    LET current_price == Get(a_data, "current_price", 0)
        ma5  == Get(ind, "ma5", 0)
        ma10 == Get(ind, "ma10", 0)
        ma20 == Get(ind, "ma20", 0)
        R(t, c, s, rs, rf) == Ret(RuleResult("SupportRule", t, c, s, rs, rf))
        support_ma5  == SupportAt(current_price, ma5)
        support_ma10 == SupportAt(current_price, ma10)
        score == (IF support_ma5 = "true" THEN 5 ELSE 0)
                 + (IF support_ma10 = "true" THEN 5 ELSE 0)
        reasons == (IF support_ma5 = "true" THEN <<"MA5 support holds">> ELSE <<>>)
                   \o (IF support_ma10 = "true" THEN <<"MA10 support holds">> ELSE <<>>)
        broke == AND(GT(ma20, Num(0)), LT(current_price, ma20))
    IN  IF support_ma5 = "raise" \/ support_ma10 = "raise" THEN Raise("TypeError")
        ELSE IF support_ma5 = "true" \/ support_ma10 = "true"
        THEN R("BUY", "HIGH", score, reasons, <<>>)
        ELSE IF broke = "raise" THEN Raise("TypeError")
        ELSE IF broke = "true"
        THEN R("SELL", "MEDIUM", 0, reasons, <<"broke MA20, trend weakening">>)
        ELSE R("HOLD", "MEDIUM", score, reasons, <<>>)

\* a keyword is a sequence of text tokens; a token is a word of the news text
\* (the two letters of "ST" are one token each, in either case)
Keyword(name, tokens) == [name |-> name, tokens |-> tokens]

RISK_KEYWORDS == <<
    Keyword("reduction", <<"reduction">>),
    Keyword("reduction announcement", <<"reduction", "announcement">>),
    Keyword("shareholder reduction", <<"shareholder", "reduction">>),
    Keyword("executive reduction", <<"executive", "reduction">>),
    Keyword("penalty", <<"penalty">>),
    Keyword("investigation", <<"investigation">>),
    Keyword("regulatory penalty", <<"regulatory", "penalty">>),
    Keyword("earnings loss forecast", <<"earnings", "loss forecast">>),
    Keyword("earnings decline", <<"earnings", "decline">>),
    Keyword("earnings reversal", <<"earnings", "reversal">>),
    Keyword("large unlock", <<"large", "unlock">>),
    Keyword("restricted unlock", <<"restricted", "unlock">>),
    Keyword("delisting risk", <<"delisting risk">>),
    Keyword("ST", <<"S", "T">>),
    Keyword("*ST", <<"*", "S", "T">>),
    Keyword("major bad news", <<"major", "bad news">>),
    Keyword("negative news", <<"negative news">>) >>

POSITIVE_KEYWORDS == <<
    Keyword("earnings gain forecast", <<"earnings", "gain forecast">>),
    Keyword("earnings beat", <<"earnings", "beat">>),
    Keyword("increase holdings", <<"increase holdings">>),
    Keyword("buyback", <<"buyback">>),
    Keyword("contract", <<"contract">>),
    Keyword("order", <<"order">>),
    Keyword("bid won", <<"bid won">>),
    Keyword("good news", <<"good news">>),
    Keyword("major good news", <<"major", "good news">>) >>

\* str.lower(), token by token
Lower(text) ==
    [i \in 1..Len(text) |->
        IF text[i] = "S" THEN "s" ELSE IF text[i] = "T" THEN "t" ELSE text[i]]

\* `keyword in text`
Contains(text, tokens) ==
    \E i \in 1..(Len(text) - Len(tokens) + 1) :
        SubSeq(text, i, i + Len(tokens) - 1) = tokens

\* the names of the keywords of kws found in text, in list order
Matched(kws, text) ==
    LET hit(kw) == Contains(text, kw.tokens)
        found == SelectSeq(kws, hit)
    IN  [i \in 1..Len(found) |-> found[i].name]

\* news_context is None
NoNews == <<"None">>

Max(a, b) == IF a >= b THEN a ELSE b

\* faulty variant of RiskRuleEvaluate: the score is not floored at 0
RiskRuleEvaluate_NoFloor(a_data, ind, news) ==
    LET R(t, c, s, rs, rf) == Ret(RuleResult("RiskRule", t, c, s, rs, rf))
        news_lower    == Lower(news)
        risk_factors  == Matched(RISK_KEYWORDS, news_lower)
        reasons       == Matched(POSITIVE_KEYWORDS, news_lower)
        risk_count     == Len(risk_factors)
        positive_count == Len(reasons)
    IN  IF news = NoNews \/ news = <<>>
        THEN R("HOLD", "MEDIUM", 10, <<>>, <<>>)
        ELSE IF risk_count > 0 THEN
            IF risk_count >= 2
            THEN R("SELL", "HIGH", 10 - risk_count * 3, reasons, risk_factors)
            ELSE R("WAIT", "MEDIUM", 10 - risk_count * 3, reasons, risk_factors)
        ELSE IF positive_count > 0
        THEN R("BUY", "MEDIUM", 15, reasons, risk_factors)
        ELSE R("HOLD", "MEDIUM", 10, reasons, risk_factors)

\* RiskRule.evaluate: risk and positive keywords in the news text
RiskRuleEvaluate(a_data, ind, news) ==
    LET R(t, c, s, rs, rf) == Ret(RuleResult("RiskRule", t, c, s, rs, rf))
        news_lower    == Lower(news)
        risk_factors  == Matched(RISK_KEYWORDS, news_lower)
        reasons       == Matched(POSITIVE_KEYWORDS, news_lower)
        risk_count     == Len(risk_factors)
        positive_count == Len(reasons)
    IN  \* `if not news_context`: None or the empty string
        IF news = NoNews \/ news = <<>>
        THEN R("HOLD", "MEDIUM", 10, <<>>, <<>>)
        ELSE IF risk_count > 0 THEN
            IF risk_count >= 2
            THEN R("SELL", "HIGH", Max(0, 10 - risk_count * 3), reasons, risk_factors)
            ELSE R("WAIT", "MEDIUM", Max(0, 10 - risk_count * 3), reasons, risk_factors)
        ELSE IF positive_count > 0
        THEN R("BUY", "MEDIUM", 15, reasons, risk_factors)
        ELSE R("HOLD", "MEDIUM", 10, reasons, risk_factors)

\* BaseRule: a rule object is its class and its weight; the class fixes the
\* name (super().__init__(name=...))
Rule(impl, weight) == [name |-> impl, weight |-> weight]

\* rule.evaluate(asset_data, indicators, news_context)
Evaluate(rule, a_data, ind, news) ==
    CASE rule.name = "TrendRule"   -> TrendRuleEvaluate(a_data, ind, news)
      [] rule.name = "BiasRule"    -> BiasRuleEvaluate(a_data, ind, news)
      [] rule.name = "VolumeRule"  -> VolumeRuleEvaluate(a_data, ind, news)
      [] rule.name = "SupportRule" -> SupportRuleEvaluate(a_data, ind, news)
      [] rule.name = "RiskRule"    -> RiskRuleEvaluate(a_data, ind, news)

---------------------------------------------------------------------------
(* core/services/advice/aggregator.py                                      *)

\* (rule_weights or {}).get(rule_name, 1.0)
WeightOf(weights, rule_name) ==
    IF rule_name \in DOMAIN weights THEN weights[rule_name] ELSE 1

\* votes[key] = votes.get(key, 0) + w on a dict kept in insertion order: a
\* sequence of <<key, sum>> pairs
AddVote(votes, key, w) ==
    IF \E i \in 1..Len(votes) : votes[i][1] = key
    THEN [i \in 1..Len(votes) |->
            IF votes[i][1] = key THEN <<key, votes[i][2] + w>> ELSE votes[i]]
    ELSE Append(votes, <<key, w>>)

RECURSIVE advice_votes(_, _)
\* advice_votes after the loop over results
advice_votes(results, weights) ==
    IF results = <<>> THEN <<>>
    ELSE LET n == Len(results)
         IN  AddVote(advice_votes(SubSeq(results, 1, n - 1), weights),
                     results[n].advice_type, WeightOf(weights, results[n].rule_name))

RECURSIVE confidence_votes(_, _)
\* confidence_votes after the loop over results
confidence_votes(results, weights) ==
    IF results = <<>> THEN <<>>
    ELSE LET n == Len(results)
         IN  AddVote(confidence_votes(SubSeq(results, 1, n - 1), weights),
                     results[n].confidence, WeightOf(weights, results[n].rule_name))

RECURSIVE total_score(_, _)
total_score(results, weights) ==
    IF results = <<>> THEN 0
    ELSE total_score(Tail(results), weights)
         + Head(results).score * WeightOf(weights, Head(results).rule_name)

RECURSIVE total_weight(_, _)
total_weight(results, weights) ==
    IF results = <<>> THEN 0
    ELSE total_weight(Tail(results), weights)
         + WeightOf(weights, Head(results).rule_name)

RECURSIVE MaxItem_LastWins(_, _)
\* faulty variant of MaxItem: >= instead of >, so the last of the tied items wins
MaxItem_LastWins(best, rest) ==
    IF rest = <<>> THEN best
    ELSE MaxItem_LastWins(IF Head(rest)[2] >= best[2] THEN Head(rest) ELSE best, Tail(rest))

RECURSIVE MaxItem(_, _)
\* max(votes.items(), key=lambda x: x[1]) continued from the item best: a
\* later item replaces it only when its sum is strictly greater
MaxItem(best, rest) ==
    IF rest = <<>> THEN best
    ELSE MaxItem(IF Head(rest)[2] > best[2] THEN Head(rest) ELSE best, Tail(rest))

\* max(votes.items(), key=lambda x: x[1])[0] if votes else default
MaxVote(votes, default) ==
    IF votes = <<>> THEN default ELSE MaxItem(Head(votes), Tail(votes))[1]

\* faulty variant of final_score: the weighted total divided by the number of results
final_score_ByCount(results, weights) ==
    IF total_weight(results, weights) > 0
    THEN TruncDiv(total_score(results, weights), Len(results))
    ELSE 0

\* faulty variant of final_score: the weighted total itself, not the average
final_score_Sum(results, weights) ==
    IF total_weight(results, weights) > 0 THEN total_score(results, weights) ELSE 0

\* final_score = int(total_score / total_weight) if total_weight > 0 else 0
final_score(results, weights) ==
    IF total_weight(results, weights) > 0
    THEN TruncDiv(total_score(results, weights), total_weight(results, weights))
    ELSE 0

\* faulty variant of ScoreOverride: the first threshold compared with > instead of >=
ScoreOverride_StrictTop(score, voted) ==
    IF score > 80 THEN "STRONG_BUY"
    ELSE IF score >= 65 THEN
        IF voted \notin {"STRONG_BUY", "BUY"} THEN "BUY" ELSE voted
    ELSE IF score >= 50 THEN
        IF voted \in {"SELL", "STRONG_SELL"} THEN "HOLD" ELSE voted
    ELSE IF score >= 35 THEN "WAIT"
    ELSE IF voted \notin {"SELL", "STRONG_SELL"} THEN "SELL" ELSE voted

\* the adjustment of the voted category by the score
ScoreOverride(score, voted) ==
    IF score >= 80 THEN "STRONG_BUY"
    ELSE IF score >= 65 THEN
        IF voted \notin {"STRONG_BUY", "BUY"} THEN "BUY" ELSE voted
    ELSE IF score >= 50 THEN
        IF voted \in {"SELL", "STRONG_SELL"} THEN "HOLD" ELSE voted
    ELSE IF score >= 35 THEN "WAIT"
    ELSE IF voted \notin {"SELL", "STRONG_SELL"} THEN "SELL" ELSE voted

RECURSIVE Concat(_)
\* list.extend over a sequence of lists
Concat(lists) ==
    IF lists = <<>> THEN <<>> ELSE Head(lists) \o Concat(Tail(lists))

\* RuleAggregator.aggregate
aggregate(results, current_price, weights) ==
    IF results = <<>>
    THEN InvestmentAdvice("WAIT", "LOW", current_price, 0,
                          <<"no rule results">>, <<>>, <<>>, "system analysis")
    ELSE InvestmentAdvice(
            ScoreOverride(final_score(results, weights),
                          MaxVote(advice_votes(results, weights), "WAIT")),
            MaxVote(confidence_votes(results, weights), "MEDIUM"),
            current_price,
            final_score(results, weights),
            Concat([i \in 1..Len(results) |-> results[i].reasons]),
            Concat([i \in 1..Len(results) |-> results[i].risk_factors]),
            [i \in 1..Len(results) |-> results[i].rule_name],
            "investment advice engine")

---------------------------------------------------------------------------
(* core/services/advice/engine.py                                          *)

\* AdviceEngine.__init__ with rules=None
DefaultRules == << Rule("TrendRule", 1), Rule("BiasRule", 1), Rule("VolumeRule", 1),
                   Rule("SupportRule", 1), Rule("RiskRule", 1) >>

\* the loop `for rule in self.rules: try: ... except Exception: continue`:
\* what each rule returned or raised, in rule order
RunRules(rules, a_data, ind, news) ==
    [i \in 1..Len(rules) |-> Evaluate(rules[i], a_data, ind, news)]

\* faulty variant of Surviving: a rule that raised counts as a zero-score result
Surviving_ZeroForFailed(rules, a_data, ind, news) ==
    LET outs == RunRules(rules, a_data, ind, news)
    IN  [i \in 1..Len(rules) |->
            IF outs[i].exc = "" THEN outs[i].value
            ELSE RuleResult(rules[i].name, "WAIT", "LOW", 0, <<>>, <<>>)]

\* the rule_results list after that loop
Surviving(rules, a_data, ind, news) ==
    LET outs == RunRules(rules, a_data, ind, news)
        ok(o) == o.exc = ""
        kept == SelectSeq(outs, ok)
    IN  [i \in 1..Len(kept) |-> kept[i].value]

\* {rule.name: rule.get_weight() for rule in self.rules}: the last rule of a
\* name sets its weight
RuleWeights(rules) ==
    LET names == {rules[i].name : i \in 1..Len(rules)}
        last(n) == CHOOSE i \in 1..Len(rules) :
                      /\ rules[i].name = n
                      /\ \A j \in (i + 1)..Len(rules) : rules[j].name # n
    IN  [n \in names |-> rules[last(n)].weight]

\* AdviceEngine.generate_advice_from_data
generate_advice_from_data(rules, a_data, ind, news) ==
    aggregate(Surviving(rules, a_data, ind, news),
              Get(a_data, "current_price", 0),
              RuleWeights(rules))

\* asset.get_latest_price() / asset.get_latest_indicators() returned None
NoData == [tag |-> "nodata"]

\* core/domain/asset.py PriceData: close and pct_chg are floats
PriceData(close, pct_chg) == [tag |-> "data", close |-> close, pct_chg |-> pct_chg]

\* core/domain/asset.py IndicatorData: every field is Optional[float]
IndicatorData(ma5, ma10, ma20, bias_ma5, volume_ratio) ==
    [tag |-> "data", ma5 |-> ma5, ma10 |-> ma10, ma20 |-> ma20,
     bias_ma5 |-> bias_ma5, volume_ratio |-> volume_ratio]

\* AdviceEngine.generate_advice
generate_advice(rules, latest_price, latest_indicators, news) ==
    IF latest_price.tag = "nodata" \/ latest_indicators.tag = "nodata"
    THEN InvestmentAdvice("WAIT", "LOW", Num(0), 0, <<"insufficient data">>,
                          <<>>, <<>>, "system analysis")
    ELSE LET a_data == [current_price |-> latest_price.close,
                        price_change_pct |-> latest_price.pct_chg]
             ind == [ma5 |-> latest_indicators.ma5, ma10 |-> latest_indicators.ma10,
                     ma20 |-> latest_indicators.ma20,
                     bias_ma5 |-> latest_indicators.bias_ma5,
                     volume_ratio |-> latest_indicators.volume_ratio]
         IN  aggregate(Surviving(rules, a_data, ind, news), latest_price.close,
                       RuleWeights(rules))

---------------------------------------------------------------------------
(* core/services/backtest/metrics.py                                       *)

RECURSIVE GCD(_, _)
GCD(a, b) == IF b = 0 THEN a ELSE GCD(b, a % b)

\* an exact fraction n/d, d > 0, in lowest terms
Frac(n, d) == [n |-> n \div GCD(Abs(n), d), d |-> d \div GCD(Abs(n), d)]

FracLess(x, y) == x.n * y.d < y.n * x.d

RECURSIVE MaxDrawdownLoop(_, _, _)
\* the loop of _calculate_max_drawdown: Raise on a division by a zero peak
MaxDrawdownLoop(equities, max_equity, max_drawdown) ==
    IF equities = <<>> THEN Ret(max_drawdown)
    ELSE LET equity == Head(equities)
             peak == IF equity > max_equity THEN equity ELSE max_equity
         IN  IF peak = 0 THEN Raise("ZeroDivisionError")
             ELSE LET drawdown == IF peak > 0
                                  THEN Frac((peak - equity) * 100, peak)
                                  ELSE Frac((equity - peak) * 100, -peak)
                  IN  MaxDrawdownLoop(Tail(equities), peak,
                          IF FracLess(max_drawdown, drawdown)
                          THEN drawdown ELSE max_drawdown)

\* MetricsCalculator._calculate_max_drawdown, in percent
calculate_max_drawdown(equities) ==
    IF equities = <<>> THEN Ret(Frac(0, 1))
    ELSE MaxDrawdownLoop(equities, Head(equities), Frac(0, 1))

\* the returns list of _calculate_sharpe_ratio: one entry for each step whose
\* previous equity is positive
SharpeReturns(equities) ==
    LET steps == [i \in 1..(Len(equities) - 1) |-> <<equities[i], equities[i + 1]>>]
        usable(st) == st[1] > 0
        kept == SelectSeq(steps, usable)
    IN  [i \in 1..Len(kept) |-> Frac(kept[i][2] - kept[i][1], kept[i][1])]

\* MetricsCalculator._calculate_sharpe_ratio: every division is behind a
\* guard; the value is 0.0 ("zero") when a guard takes the fallback
calculate_sharpe_ratio(equities) ==
    LET returns == SharpeReturns(equities)
    IN  IF Len(equities) < 2 THEN Ret("zero")
        ELSE IF returns = <<>> THEN Ret("zero")
        ELSE IF \A i \in 1..Len(returns) :
                    returns[i].n * returns[1].d = returns[1].n * returns[i].d
        THEN Ret("zero")            \* variance 0: std_dev 0
        ELSE Ret("avg/std*sqrt(252)")

RECURSIVE SumAmount(_, _, _)
\* sum(t.amount for t in trades if t.type == type), trades those of one code
SumAmount(trades, code, type) ==
    IF trades = <<>> THEN 0
    ELSE SumAmount(Tail(trades), code, type)
         + (IF Head(trades).code = code /\ Head(trades).type = type
            THEN Head(trades).amount ELSE 0)

RECURSIVE SumOf(_, _)
\* the sum of f[x] over the x of S
SumOf(f, S) ==
    IF S = {} THEN 0
    ELSE LET x == CHOOSE y \in S : TRUE
         IN  f[x] + SumOf(f, S \ {x})

\* the trade statistics of calculate: trades are grouped by code
\* (stock_trades); a code with sell_amount > 0 counts once, as a win when
\* sell_amount - buy_amount > 0 and as a loss otherwise
TradeStatistics(trades) ==
    LET codes == {trades[i].code : i \in 1..Len(trades)}
        profit == [c \in codes |-> SumAmount(trades, c, "sell") - SumAmount(trades, c, "buy")]
        closed == {c \in codes : SumAmount(trades, c, "sell") > 0}
        wins == {c \in closed : profit[c] > 0}
        losses == closed \ wins
        total_profit == SumOf(profit, wins)
        total_loss == SumOf([c \in losses |-> -profit[c]], losses)
        win_count == Cardinality(wins)
        lose_count == Cardinality(losses)
        total_trades == win_count + lose_count
    IN  [win_rate |-> IF total_trades > 0 THEN Frac(win_count * 100, total_trades)
                      ELSE Frac(0, 1),
         profit_factor |-> IF total_loss > 0 THEN Frac(total_profit, total_loss)
                           ELSE Frac(0, 1),
         total_trades |-> total_trades,
         winning_trades |-> win_count,
         losing_trades |-> lose_count]

\* MetricsCalculator.calculate
calculate(result, equities) ==
    IF result.initial_capital = 0 THEN Raise("ZeroDivisionError")
    ELSE LET total_return ==
                 IF result.initial_capital > 0
                 THEN Frac((result.final_capital - result.initial_capital) * 100,
                           result.initial_capital)
                 ELSE Frac((result.initial_capital - result.final_capital) * 100,
                           -result.initial_capital)
             annual_return == IF result.end_date - result.start_date > 0
                              THEN "power" ELSE "zero"
             max_drawdown == calculate_max_drawdown(equities)
             sharpe_ratio == calculate_sharpe_ratio(equities)
             stats == TradeStatistics(result.trades)
         IN  IF max_drawdown.exc # "" THEN Raise(max_drawdown.exc)
             ELSE Ret([total_return |-> total_return,
                       annual_return |-> annual_return,
                       max_drawdown |-> max_drawdown.value,
                       sharpe_ratio |-> sharpe_ratio.value,
                       win_rate |-> stats.win_rate,
                       profit_factor |-> stats.profit_factor,
                       total_trades |-> stats.total_trades,
                       winning_trades |-> stats.winning_trades,
                       losing_trades |-> stats.losing_trades])

BacktestResult(start_date, end_date, initial_capital, final_capital, total_return, trades, positions, snapshots) ==
    [start_date |-> start_date, end_date |-> end_date,
     initial_capital |-> initial_capital, final_capital |-> final_capital,
     total_return |-> total_return, trades |-> trades, positions |-> positions,
     daily_equity |-> snapshots]

\* a BacktestResult built by hand for MetricsCalculator.calculate
ResultOf(initial_capital, final_capital, days, equities) ==
    BacktestResult(0, days, initial_capital, final_capital, Frac(0, 1), <<>>, <<>>,
                   [i \in 1..Len(equities) |-> [date |-> 0, equity |-> equities[i]]])

---------------------------------------------------------------------------
(* core/services/backtest/executor.py                                      *)

SignalType == {"BUY", "SELL", "HOLD", "CLOSE"}

\* TradingSignal: the fields the backtest reads
TradingSignal(code, signal_type, date) ==
    [code |-> code, signal_type |-> signal_type, date |-> date]

Position(code, quantity, avg_price, entry_date, entry_signal) ==
    [code |-> code, quantity |-> quantity, avg_price |-> avg_price,
     entry_date |-> entry_date, entry_signal |-> entry_signal]

Trade(code, signal, quantity, price, amount, date, type) ==
    [code |-> code, signal |-> signal, quantity |-> quantity, price |-> price,
     amount |-> amount, date |-> date, type |-> type]

\* execute_signal returned None
NoTrade == [type |-> "None"]

\* the value n / d of a float division, kept exact and in lowest terms (d > 0)
Div(n, d) == Frac(n, d)

\* BacktestExecutor.__init__: positions is the dict {code: Position} in
\* insertion order, trades the list of Trade
BacktestExecutor(initial_capital) ==
    [initial_capital |-> initial_capital, current_capital |-> initial_capital,
     positions |-> <<>>, trades |-> <<>>]

\* `code in self.positions`
Holds(positions, code) == \E i \in 1..Len(positions) : positions[i].code = code

\* self.positions[code]
PositionOf(positions, code) ==
    positions[CHOOSE i \in 1..Len(positions) : positions[i].code = code]

\* what a call on the executor gives: the executor afterwards and the value
\* returned or the exception raised
Outcome(ex, out) == [ex |-> ex, out |-> out]

\* faulty variant of execute_buy: the whole available capital is spent
execute_buy_AllCash(ex, signal, price, available_capital) ==
    IF price = 0 THEN Outcome(ex, Raise("ZeroDivisionError"))
    ELSE
    LET quantity == TruncDiv(available_capital, price * 100) * 100
        amount == quantity * price
        trade == Trade(signal.code, signal, quantity, price, amount, signal.date, "buy")
        positions ==
            IF Holds(ex.positions, signal.code)
            THEN [i \in 1..Len(ex.positions) |->
                    IF ex.positions[i].code # signal.code THEN ex.positions[i]
                    ELSE [ex.positions[i] EXCEPT !.quantity = @ + quantity]]
            ELSE Append(ex.positions,
                        Position(signal.code, quantity, Frac(price, 1), signal.date, signal))
    IN  IF quantity < 100 THEN Outcome(ex, Ret(NoTrade))
        ELSE Outcome([ex EXCEPT !.positions = positions,
                                !.current_capital = ex.current_capital - amount,
                                !.trades = Append(ex.trades, trade)],
                     Ret(trade))

\* faulty variants of execute_buy: tenths of the available capital are used,
\* fee is charged on top of the amount, and an add-on buy adds to the
\* position's quantity (adds) or replaces it
execute_buy_Variant(ex, signal, price, available_capital, tenths, fee, adds) ==
    IF price = 0 THEN Outcome(ex, Raise("ZeroDivisionError"))
    ELSE
    LET quantity == TruncDiv(available_capital * tenths, price * 1000) * 100
        amount == quantity * price
        trade == Trade(signal.code, signal, quantity, price, amount, signal.date, "buy")
        added(pos) ==
            IF pos.code # signal.code THEN pos
            ELSE IF ~adds THEN [pos EXCEPT !.quantity = quantity, !.avg_price = Frac(price, 1)]
            ELSE [pos EXCEPT !.quantity = pos.quantity + quantity,
                             !.avg_price = Frac(pos.avg_price.n * pos.quantity
                                                + amount * pos.avg_price.d,
                                                pos.avg_price.d * (pos.quantity + quantity))]
        positions ==
            IF Holds(ex.positions, signal.code)
            THEN [i \in 1..Len(ex.positions) |-> added(ex.positions[i])]
            ELSE Append(ex.positions,
                        Position(signal.code, quantity, Frac(price, 1), signal.date, signal))
    IN  IF quantity < 100 THEN Outcome(ex, Ret(NoTrade))
        ELSE Outcome([ex EXCEPT !.positions = positions,
                                !.current_capital = ex.current_capital - amount - fee,
                                !.trades = Append(ex.trades, trade)],
                     Ret(trade))

\* faulty variant of execute_buy: 120% of the available capital is used
execute_buy_Overspends(ex, signal, price, available_capital) ==
    execute_buy_Variant(ex, signal, price, available_capital, 12, 0, TRUE)

\* faulty variant of execute_buy: an add-on buy replaces the position held
execute_buy_ReplacesPosition(ex, signal, price, available_capital) ==
    execute_buy_Variant(ex, signal, price, available_capital, 8, 0, FALSE)

\* faulty variant of execute_buy: a fee of 5 is charged on every buy
execute_buy_WithFee(ex, signal, price, available_capital) ==
    execute_buy_Variant(ex, signal, price, available_capital, 8, 5, TRUE)

\* BacktestExecutor._execute_buy
execute_buy(ex, signal, price, available_capital) ==
    IF price = 0 THEN Outcome(ex, Raise("ZeroDivisionError"))
    ELSE
    LET \* int(available_capital * 0.8 / price / 100) * 100
        quantity == TruncDiv(available_capital * 8, price * 1000) * 100
        amount == quantity * price
        trade == Trade(signal.code, signal, quantity, price, amount, signal.date, "buy")
        added(pos) ==
            IF pos.code # signal.code THEN pos
            ELSE LET total_cost == Frac(pos.avg_price.n * pos.quantity + amount * pos.avg_price.d,
                                        pos.avg_price.d)
                 IN  [pos EXCEPT !.quantity = pos.quantity + quantity,
                                 !.avg_price = Div(total_cost.n,
                                                   total_cost.d * (pos.quantity + quantity))]
        positions ==
            IF Holds(ex.positions, signal.code)
            THEN [i \in 1..Len(ex.positions) |-> added(ex.positions[i])]
            ELSE Append(ex.positions,
                        Position(signal.code, quantity, Frac(price, 1), signal.date, signal))
    IN  IF quantity < 100 THEN Outcome(ex, Ret(NoTrade))
        ELSE Outcome([ex EXCEPT !.positions = positions,
                                !.current_capital = ex.current_capital - amount,
                                !.trades = Append(ex.trades, trade)],
                     Ret(trade))

\* faulty variant of execute_sell: the position stays in the map, emptied
execute_sell_LeavesEmpty(ex, signal, price) ==
    IF ~Holds(ex.positions, signal.code) THEN Outcome(ex, Ret(NoTrade))
    ELSE
    LET pos == PositionOf(ex.positions, signal.code)
        amount == pos.quantity * price
        trade == Trade(signal.code, signal, pos.quantity, price, amount, signal.date, "sell")
    IN  Outcome([ex EXCEPT !.positions =
                               [i \in 1..Len(ex.positions) |->
                                   IF ex.positions[i].code = signal.code
                                   THEN [ex.positions[i] EXCEPT !.quantity = 0]
                                   ELSE ex.positions[i]],
                           !.current_capital = ex.current_capital + amount,
                           !.trades = Append(ex.trades, trade)],
                Ret(trade))

\* faulty variant of execute_sell: the sell replaces the last trade of the log
execute_sell_Overwrites(ex, signal, price) ==
    IF ~Holds(ex.positions, signal.code) THEN Outcome(ex, Ret(NoTrade))
    ELSE
    LET pos == PositionOf(ex.positions, signal.code)
        amount == pos.quantity * price
        trade == Trade(signal.code, signal, pos.quantity, price, amount, signal.date, "sell")
        other(p) == p.code # signal.code
    IN  Outcome([ex EXCEPT !.positions = SelectSeq(ex.positions, other),
                           !.current_capital = ex.current_capital + amount,
                           !.trades = [ex.trades EXCEPT ![Len(ex.trades)] = trade]],
                Ret(trade))

\* faulty variant of execute_sell: the proceeds are not added to the cash
execute_sell_NoCredit(ex, signal, price) ==
    IF ~Holds(ex.positions, signal.code) THEN Outcome(ex, Ret(NoTrade))
    ELSE
    LET pos == PositionOf(ex.positions, signal.code)
        quantity == pos.quantity
        amount == quantity * price
        trade == Trade(signal.code, signal, quantity, price, amount, signal.date, "sell")
        other(p) == p.code # signal.code
    IN  Outcome([ex EXCEPT !.positions = SelectSeq(ex.positions, other),
                           !.trades = Append(ex.trades, trade)],
                Ret(trade))

\* BacktestExecutor._execute_sell
execute_sell(ex, signal, price) ==
    IF ~Holds(ex.positions, signal.code) THEN Outcome(ex, Ret(NoTrade))
    ELSE
    LET pos == PositionOf(ex.positions, signal.code)
        quantity == pos.quantity
        amount == quantity * price
        trade == Trade(signal.code, signal, quantity, price, amount, signal.date, "sell")
        other(p) == p.code # signal.code
    IN  Outcome([ex EXCEPT !.positions = SelectSeq(ex.positions, other),
                           !.current_capital = ex.current_capital + amount,
                           !.trades = Append(ex.trades, trade)],
                Ret(trade))

\* BacktestExecutor._execute_close
execute_close(ex, signal, price) == execute_sell(ex, signal, price)

\* faulty variant of execute_signal: a HOLD signal closes the position
execute_signal_HoldCloses(ex, signal, current_price, available_capital) ==
    LET available == IF IsNone(available_capital) THEN ex.current_capital
                     ELSE available_capital.v
    IN  CASE signal.signal_type = "BUY" -> execute_buy(ex, signal, current_price, available)
          [] signal.signal_type = "SELL" -> execute_sell(ex, signal, current_price)
          [] OTHER -> execute_close(ex, signal, current_price)

\* BacktestExecutor.execute_signal; available_capital None takes the cash
execute_signal(ex, signal, current_price, available_capital) ==
    LET available == IF IsNone(available_capital) THEN ex.current_capital
                     ELSE available_capital.v
    IN  CASE signal.signal_type = "BUY" -> execute_buy(ex, signal, current_price, available)
          [] signal.signal_type = "SELL" -> execute_sell(ex, signal, current_price)
          [] signal.signal_type = "CLOSE" -> execute_close(ex, signal, current_price)
          [] OTHER -> Outcome(ex, Ret(NoTrade))

\* BacktestExecutor.get_current_positions
get_current_positions(ex) == ex.positions

\* variant: open positions are not valued
get_total_equity_CashOnly(ex, current_prices) == ex.current_capital

RECURSIVE get_total_equity(_, _)
\* BacktestExecutor.get_total_equity; current_prices is a dict {code: price}
get_total_equity(ex, current_prices) ==
    IF ex.positions = <<>> THEN ex.current_capital
    ELSE LET pos == Head(ex.positions)
             rest == get_total_equity([ex EXCEPT !.positions = Tail(ex.positions)],
                                      current_prices)
         IN  IF pos.code \in DOMAIN current_prices
             THEN rest + pos.quantity * current_prices[pos.code]
             ELSE rest

\* faulty variant of reset: the trade log is kept
reset_KeepsLog(ex) ==
    [ex EXCEPT !.current_capital = ex.initial_capital, !.positions = <<>>]

\* BacktestExecutor.reset
reset(ex) ==
    [ex EXCEPT !.current_capital = ex.initial_capital,
               !.positions = <<>>, !.trades = <<>>]

---------------------------------------------------------------------------
(* core/services/backtest/engine.py                                        *)

\* BacktestEngine.__init__: the engine and its executor share initial_capital
BacktestEngine(initial_capital) ==
    [initial_capital |-> initial_capital, executor |-> BacktestExecutor(initial_capital)]

\* variant: the signals taken in input order
SortedByDate_InputOrder(signals, dates) == signals

RECURSIVE SortedByDate(_, _)
\* sorted(signals, key=lambda s: s.date): ascending dates, input order kept
\* among equal dates; dates is the set of dates still to place
SortedByDate(signals, dates) ==
    IF dates = {} THEN <<>>
    ELSE LET first == CHOOSE d \in dates : \A e \in dates : d <= e
             on(signal) == signal.date = first
         IN  SelectSeq(signals, on) \o SortedByDate(signals, dates \ {first})

\* the state of the loop of run_backtest
Loop(ex, equities, exc) == [ex |-> ex, equities |-> equities, exc |-> exc]

RECURSIVE RunSignals_IgnoresRange(_, _, _, _, _)
\* variant: signals outside [start_date, end_date] are executed as well
RunSignals_IgnoresRange(loop, sorted_signals, price_data, start_date, end_date) ==
    IF sorted_signals = <<>> \/ loop.exc # "" THEN loop
    ELSE LET signal == Head(sorted_signals)
             rest == Tail(sorted_signals)
         IN  IF signal.date \notin DOMAIN price_data
             THEN RunSignals_IgnoresRange(loop, rest, price_data, start_date, end_date)
             ELSE IF signal.code \notin DOMAIN price_data[signal.date]
             THEN RunSignals_IgnoresRange(loop, rest, price_data, start_date, end_date)
             ELSE LET prices == price_data[signal.date]
                      r == execute_signal(loop.ex, signal, prices[signal.code], None)
                  IN  IF r.out.exc # ""
                      THEN Loop(r.ex, loop.equities, r.out.exc)
                      ELSE RunSignals_IgnoresRange(
                               Loop(r.ex, Append(loop.equities,
                                                 get_total_equity(r.ex, prices)), ""),
                               rest, price_data, start_date, end_date)

RECURSIVE RunSignals(_, _, _, _, _)
\* the loop of run_backtest over the sorted signals; price_data is a dict
\* {date: {code: price}}; an exception of execute_signal ends it
RunSignals(loop, sorted_signals, price_data, start_date, end_date) ==
    IF sorted_signals = <<>> \/ loop.exc # "" THEN loop
    ELSE LET signal == Head(sorted_signals)
             rest == Tail(sorted_signals)
         IN  IF signal.date < start_date \/ signal.date > end_date
             THEN RunSignals(loop, rest, price_data, start_date, end_date)
             ELSE IF signal.date \notin DOMAIN price_data
             THEN RunSignals(loop, rest, price_data, start_date, end_date)
             ELSE IF signal.code \notin DOMAIN price_data[signal.date]
             THEN RunSignals(loop, rest, price_data, start_date, end_date)
             ELSE LET prices == price_data[signal.date]
                      r == execute_signal(loop.ex, signal, prices[signal.code], None)
                  IN  IF r.out.exc # ""
                      THEN Loop(r.ex, loop.equities, r.out.exc)
                      ELSE RunSignals(Loop(r.ex,
                                           Append(loop.equities,
                                                  get_total_equity(r.ex, prices)),
                                           ""),
                                      rest, price_data, start_date, end_date)

\* variant: the k-th snapshot is dated k - 1 days after start_date
Snapshots_Daily(start_date, equities) ==
    [i \in 1..Len(equities) |-> [date |-> start_date + i - 1, equity |-> equities[i]]]

\* the daily_equity list of the result: every entry carries start_date
Snapshots(start_date, equities) ==
    [i \in 1..Len(equities) |-> [date |-> start_date, equity |-> equities[i]]]

\* BacktestEngine.run_backtest: the executor afterwards and the
\* BacktestResult returned or the exception raised
run_backtest(engine, signals, price_data, start_date, end_date) ==
    LET sorted_signals ==
            SortedByDate(signals, {signals[i].date : i \in 1..Len(signals)})
        loop == RunSignals(Loop(reset(engine.executor), <<engine.initial_capital>>, ""),
                           sorted_signals, price_data, start_date, end_date)
        final_equity == IF end_date \in DOMAIN price_data
                        THEN get_total_equity(loop.ex, price_data[end_date])
                        ELSE loop.ex.current_capital
        gain == (final_equity - engine.initial_capital) * 100
    IN  IF loop.exc # "" THEN Outcome(loop.ex, Raise(loop.exc))
        ELSE IF engine.initial_capital = 0
        THEN Outcome(loop.ex, Raise("ZeroDivisionError"))
        ELSE Outcome(loop.ex,
                     Ret(BacktestResult(start_date, end_date, engine.initial_capital,
                             final_equity,
                             IF engine.initial_capital > 0
                             THEN Frac(gain, engine.initial_capital)
                             ELSE Frac(-gain, -engine.initial_capital),
                             loop.ex.trades,
                             get_current_positions(loop.ex),
                             Snapshots(start_date, loop.equities))))

\* BacktestEngine.calculate_metrics: the equity list taken from the result
EquityList(result) ==
    [i \in 1..Len(result.daily_equity) |-> result.daily_equity[i].equity]

calculate_metrics(result) == calculate(result, EquityList(result))

---------------------------------------------------------------------------
(* core/services/backtest/signal_generator.py                              *)

\* an InvestmentAdvice with the code and advice_date the generator reads
AdviceOn(code, advice_date, adv) ==
    [code |-> code, advice_date |-> advice_date] @@ adv

\* _map_advice_to_signal returned None
NoSignalType == "None"

\* generate_from_advice returned None
NoSignal == [signal_type |-> NoSignalType]

\* variant: a HOLD advice mapped to a HOLD signal
map_advice_to_signal_HoldSignals(advice_type) ==
    CASE advice_type \in {"STRONG_BUY", "BUY"} -> "BUY"
      [] advice_type \in {"REDUCE", "SELL", "STRONG_SELL"} -> "SELL"
      [] advice_type = "HOLD" -> "HOLD"
      [] OTHER -> NoSignalType

\* SignalGenerator._map_advice_to_signal: mapping.get(advice_type)
map_advice_to_signal(advice_type) ==
    CASE advice_type = "STRONG_BUY" -> "BUY"
      [] advice_type = "BUY" -> "BUY"
      [] advice_type = "HOLD" -> NoSignalType
      [] advice_type = "REDUCE" -> "SELL"
      [] advice_type = "SELL" -> "SELL"
      [] advice_type = "STRONG_SELL" -> "SELL"
      [] advice_type = "WAIT" -> NoSignalType
      [] OTHER -> NoSignalType

\* SignalGenerator._calculate_strength:
\* min(score / 100.0, 1.0) * confidence factor (1.0, 0.7, 0.4)
calculate_strength(adv) ==
    LET score_factor == IF adv.score < 100 THEN Frac(adv.score, 100) ELSE Frac(1, 1)
        confidence_factor == CASE adv.confidence = "HIGH" -> 10
                               [] adv.confidence = "MEDIUM" -> 7
                               [] adv.confidence = "LOW" -> 4
                               [] OTHER -> 5
    IN  Frac(score_factor.n * confidence_factor, score_factor.d * 10)

\* SignalGenerator.generate_from_advice: the TradingSignal, with the fields
\* the generator fills in, or NoSignal
generate_from_advice(adv) ==
    LET signal_type == map_advice_to_signal(adv.advice_type)
    IN  IF signal_type = NoSignalType THEN NoSignal
        ELSE TradingSignal(adv.code, signal_type, adv.advice_date) @@
             [price |-> adv.current_price,
              rule_name |-> adv.source,
              rule_params |-> [advice_type |-> adv.advice_type,
                               confidence |-> adv.confidence,
                               score |-> adv.score],
              strength |-> calculate_strength(adv)]

RECURSIVE generate_batch(_)
\* SignalGenerator.generate_batch: `if signal:` drops None only, a
\* TradingSignal is always true
generate_batch(advice_list) ==
    IF advice_list = <<>> THEN <<>>
    ELSE LET signal == generate_from_advice(Head(advice_list))
         IN  (IF signal # NoSignal THEN <<signal>> ELSE <<>>)
             \o generate_batch(Tail(advice_list))

---------------------------------------------------------------------------
(* Inputs                                                                  *)

\* longest rule_results list handed to aggregate directly
MaxResults == 3

\* largest weight of rule_weights
MaxWeight == 2

\* longest equity list handed to MetricsCalculator
MaxEquityLen == 3

MAValues == {Absent, None, Num(0), Num(9), Num(10), Num(11), Num(100), Num(102), Num(105)}

PriceValues == {Absent, None, Num(0), Num(10), Num(11), Num(100), Num(102), Num(103)}

PctValues == {Absent, None, Num(-2), Num(0), Num(3)}

BiasValues == {Absent, None} \cup {Num(b) : b \in -6..7}

VolumeRatioValues == {Absent, None, Num(0), Num(7), Num(8), Num(10), Num(14), Num(15), Num(20)}

NewsTexts == { NoNews, <<>>, <<"other">>,
               <<"reduction">>, <<"shareholder", "reduction">>,
               <<"reduction", "announcement", "penalty">>,
               <<"shareholder", "reduction", "announcement", "penalty">>,
               <<"regulatory", "penalty", "other", "delisting risk">>,
               <<"S", "T">>, <<"*", "S", "T">>, <<"s", "t">>,
               <<"buyback">>, <<"major", "good news">>,
               <<"penalty", "buyback">>, <<"earnings", "decline", "order">> }

\* the results aggregate is tried on: names with and without a weight entry,
\* every category and confidence, scores in every band of the override
ResultPool == {
    RuleResult("TrendRule", "STRONG_BUY", "HIGH", 90, <<"r1">>, <<>>),
    RuleResult("TrendRule", "BUY", "HIGH", 40, <<"r2">>, <<>>),
    RuleResult("TrendRule", "STRONG_SELL", "LOW", 0, <<>>, <<"k3">>),
    RuleResult("TrendRule", "HOLD", "MEDIUM", 70, <<"r4">>, <<>>),
    RuleResult("BiasRule", "BUY", "MEDIUM", 28, <<"r5">>, <<>>),
    RuleResult("BiasRule", "WAIT", "HIGH", 5, <<>>, <<"k6">>),
    RuleResult("BiasRule", "SELL", "LOW", 55, <<>>, <<"k7">>),
    RuleResult("BiasRule", "STRONG_SELL", "MEDIUM", 66, <<>>, <<"k8">>),
    RuleResult("VolumeRule", "SELL", "HIGH", 100, <<>>, <<"k9">>),
    RuleResult("VolumeRule", "HOLD", "LOW", 12, <<"r10">>, <<>>),
    RuleResult("VolumeRule", "REDUCE", "MEDIUM", 80, <<"r11">>, <<"k11">>),
    RuleResult("VolumeRule", "WAIT", "LOW", 35, <<"r12">>, <<>>) }

RECURSIVE SeqsUpTo(_, _)
\* the sequences over S of length 0..n
SeqsUpTo(S, n) ==
    IF n = 0 THEN {<<>>}
    ELSE LET shorter == SeqsUpTo(S, n - 1)
         IN  shorter \cup {Append(q, x) : q \in {r \in shorter : Len(r) = n - 1}, x \in S}

\* rule_weights dicts: weights for TrendRule and BiasRule, either possibly
\* left out; no entry for VolumeRule (None behaves as the empty dict)
WeightValues == {Absent} \cup {Num(w) : w \in -1..MaxWeight}

WeightDicts ==
    { [n \in DOMAIN MkDict(f) |-> f[n].v] :
        f \in [{"TrendRule", "BiasRule"} -> WeightValues] }

\* the rule lists an AdviceEngine is built with
EngineRuleLists == { DefaultRules,
                     << Rule("TrendRule", 2), Rule("BiasRule", 1) >>,
                     << Rule("SupportRule", 1), Rule("VolumeRule", 0), Rule("TrendRule", 3) >> }

\* (ma5, ma10, ma20) given to the engine
EngineMA == { <<Num(11), Num(10), Num(9)>>, <<Num(101), Num(100), Num(90)>>,
              <<Num(104), Num(102), Num(100)>>, <<Num(9), Num(10), Num(11)>>,
              <<Num(10), Num(10), Num(10)>>, <<Num(0), Num(0), Num(0)>>,
              <<None, Num(10), Num(9)>>, <<Num(11), Num(10), None>>,
              <<None, None, None>>, <<Absent, Absent, Absent>> }

EnginePrices == {Absent, None, Num(0), Num(11), Num(102)}

EnginePcts == {Absent, None, Num(-1), Num(1)}

EngineBias == {Absent, None, Num(-1), Num(0), Num(6)}

EngineVolumeRatios == {Absent, None, Num(7), Num(10), Num(15)}

EngineNews == { NoNews, <<"reduction", "penalty">>, <<"buyback">> }

CapitalValues == {0, 1000, 2000}

\* most calls made on one executor
MaxCalls == 4

\* BacktestExecutor(initial_capital): the default 100000.0, and capitals that
\* buy nothing, one lot, or several lots
DefaultCapital == 100000

InitialCapitalValues == {0, 1000, 2500, DefaultCapital}

Codes == {"600000", "000001"}

Dates == {1, 2}

\* current_price of execute_signal
ExecPrices == {0, 10, 12}

\* available_capital of execute_signal: left out (None), or given
AvailableCapitalValues == {None, Num(5000)}

Signals == {TradingSignal(code, type, date) :
               code \in Codes, type \in SignalType, date \in Dates}

\* longest signal list handed to run_backtest
MaxSignals == 2

\* price_data {date: {code: price}}: both dates priced, a code or a date
\* missing, a falling price, a price of 0, nothing
PriceDataValues == {
    (1 :> ("600000" :> 10 @@ "000001" :> 10)) @@ (2 :> ("600000" :> 12 @@ "000001" :> 10)),
    (1 :> ("600000" :> 12)) @@ (2 :> ("600000" :> 10)),
    (2 :> ("600000" :> 10 @@ "000001" :> 12)),
    (1 :> ("600000" :> 10 @@ "000001" :> 12)),
    (1 :> ("600000" :> 0 @@ "000001" :> 10)) @@ (2 :> ("600000" :> 10)),
    EmptyDict }

\* start_date and end_date of run_backtest
DateRanges == { <<1, 2>>, <<1, 1>>, <<2, 2>> }

\* longest advice list handed to generate_batch
MaxAdvices == 3

\* the advices handed to the generator: every category, for two assets that
\* differ in code, date, confidence, price and score
AdviceValues ==
    {AdviceOn("600000", 1, InvestmentAdvice(type, "HIGH", Num(10), 80, <<>>, <<>>, <<>>, "system")) :
        type \in AdviceType}
    \cup
    {AdviceOn("000001", 2, InvestmentAdvice(type, "LOW", Num(12), 120, <<>>, <<>>, <<>>, "system")) :
        type \in AdviceType}

\* the signals handed to execute_signal directly: the executor only copies
\* the date into the trade, so one date is enough there
ExecSignals == {signal \in Signals : signal.date = 1}

EquityValues == {-500, 0, 500, 1000, 2000}

RECURSIVE AfterCalls(_, _)
\* the executor after the execute_signal calls <<code, type, price>> of
\* calls, made one after the other on ex
AfterCalls(ex, calls_made) ==
    IF calls_made = <<>> THEN ex
    ELSE LET c == Head(calls_made)
         IN  AfterCalls(execute_signal(ex, TradingSignal(c[1], c[2], 1), c[3], None).ex,
                        Tail(calls_made))

\* the trade lists handed to calculate, each the log of an executor with the
\* default capital: no trade; a win; a loss; a sale at the buying price; an
\* open position; a sale at price 0; two round trips of one code; a win and
\* a loss on two codes; an add-on buy before the sale; a closed and an open
\* code; two wins
TradeLogs ==
    {AfterCalls(BacktestExecutor(DefaultCapital), calls_made).trades : calls_made \in {
        <<>>,
        << <<"600000", "BUY", 10>>, <<"600000", "SELL", 12>> >>,
        << <<"600000", "BUY", 12>>, <<"600000", "SELL", 10>> >>,
        << <<"600000", "BUY", 10>>, <<"600000", "SELL", 10>> >>,
        << <<"600000", "BUY", 10>> >>,
        << <<"600000", "BUY", 10>>, <<"600000", "CLOSE", 0>> >>,
        << <<"600000", "BUY", 10>>, <<"600000", "SELL", 12>>,
           <<"600000", "BUY", 12>>, <<"600000", "SELL", 10>> >>,
        << <<"600000", "BUY", 10>>, <<"600000", "SELL", 12>>,
           <<"000001", "BUY", 12>>, <<"000001", "SELL", 10>> >>,
        << <<"600000", "BUY", 10>>, <<"600000", "BUY", 12>>, <<"600000", "SELL", 12>> >>,
        << <<"600000", "BUY", 10>>, <<"600000", "SELL", 12>>, <<"000001", "BUY", 10>> >>,
        << <<"600000", "BUY", 10>>, <<"600000", "SELL", 12>>,
           <<"000001", "BUY", 10>>, <<"000001", "SELL", 12>> >> }}

DayValues == {0, 30, 365}

---------------------------------------------------------------------------
(* State machine.  No operation below reads anything an earlier call wrote *)
(* (the rules, the aggregator, the engine and the metrics calculator keep  *)
(* no state between calls; the engine's rule list is set at construction), *)
(* so a behaviour is a construction followed by one call.                  *)

\* no run_full_backtest call was made
NoBacktest == [signals |-> <<>>, price_data |-> EmptyDict, start_date |-> 0,
               end_date |-> 0, exc |-> "", returned |-> <<>>]

\* no execute_signal call was the last call
NoArgs == [signal |-> TradingSignal("", "HOLD", 0), current_price |-> 0,
           available_capital |-> None]

NoCall == [rule |-> "", out |-> Ret("none")]

InitWith(rules) ==
    /\ op = "init"
    /\ engine_rules = rules
    /\ asset_data = EmptyDict
    /\ indicators = EmptyDict
    /\ news_context = NoNews
    /\ rule_result = NoCall
    /\ rule_results = <<>>
    /\ rule_weights = EmptyDict
    /\ advice = NoAdvice
    /\ bt_result = ResultOf(1000, 1000, 0, <<>>)
    /\ daily_equity = <<>>
    /\ metrics = Ret("none")
    /\ executor = BacktestExecutor(DefaultCapital)
    /\ before = BacktestExecutor(DefaultCapital)
    /\ last_trade = Ret(NoTrade)
    /\ call = NoArgs
    /\ calls = 0
    /\ backtest = NoBacktest
    /\ advices = <<>>
    /\ generated = <<>>

\* AdviceEngine() or AdviceEngine(rules)
Init == \E rules \in EngineRuleLists : InitWith(rules)

\* one rule.evaluate(asset_data, indicators, news_context) call
EvaluateCall(rule, a_data, ind, news) ==
    /\ op' = "evaluate"
    /\ asset_data' = a_data
    /\ indicators' = ind
    /\ news_context' = news
    /\ rule_result' = [rule |-> rule.name, out |-> Evaluate(rule, a_data, ind, news)]
    /\ UNCHANGED <<generator_vars, backtest_vars, engine_rules, rule_results, rule_weights, advice, bt_result,
                   daily_equity, metrics>>

EvaluateTrend ==
    /\ op = "init"
    /\ \E ma5 \in MAValues, ma10 \in MAValues, ma20 \in MAValues :
        EvaluateCall(Rule("TrendRule", 1), EmptyDict,
                     MkDict([ma5 |-> ma5, ma10 |-> ma10, ma20 |-> ma20]), NoNews)

EvaluateBias ==
    /\ op = "init"
    /\ \E bias \in BiasValues, ma5 \in {Absent, None, Num(10)}, price \in {Absent, None, Num(11)} :
        EvaluateCall(Rule("BiasRule", 1), MkDict([current_price |-> price]),
                     MkDict([bias_ma5 |-> bias, ma5 |-> ma5]), NoNews)

EvaluateVolume ==
    /\ op = "init"
    /\ \E vr \in VolumeRatioValues, pct \in PctValues :
        EvaluateCall(Rule("VolumeRule", 1), MkDict([price_change_pct |-> pct]),
                     MkDict([volume_ratio |-> vr]), NoNews)

EvaluateSupport ==
    /\ op = "init"
    /\ \E price \in PriceValues, ma5 \in MAValues, ma10 \in MAValues,
       ma20 \in {Absent, None, Num(0), Num(11), Num(105)} :
        EvaluateCall(Rule("SupportRule", 1), MkDict([current_price |-> price]),
                     MkDict([ma5 |-> ma5, ma10 |-> ma10, ma20 |-> ma20]), NoNews)

EvaluateRisk ==
    /\ op = "init"
    /\ \E news \in NewsTexts :
        EvaluateCall(Rule("RiskRule", 1), EmptyDict, EmptyDict, news)

\* RuleAggregator.aggregate(rule_results, code, name, current_price, rule_weights)
Aggregate ==
    /\ op = "init"
    /\ \E results \in SeqsUpTo(ResultPool, MaxResults), weights \in WeightDicts :
        /\ op' = "aggregate"
        /\ rule_results' = results
        /\ rule_weights' = weights
        /\ advice' = aggregate(results, Num(11), weights)
        /\ UNCHANGED <<generator_vars, backtest_vars, engine_rules, asset_data, indicators, news_context,
                       rule_result, bt_result, daily_equity, metrics>>

\* AdviceEngine.generate_advice_from_data(code, name, asset_data, indicators, news_context)
GenerateAdviceFromData ==
    /\ op = "init"
    /\ \E ma \in EngineMA, price \in EnginePrices, pct \in EnginePcts,
       bias \in EngineBias, vr \in EngineVolumeRatios, news \in EngineNews :
        LET a_data == MkDict([current_price |-> price, price_change_pct |-> pct])
            ind == MkDict([ma5 |-> ma[1], ma10 |-> ma[2], ma20 |-> ma[3],
                           bias_ma5 |-> bias, volume_ratio |-> vr])
        IN  /\ op' = "generate_advice_from_data"
            /\ asset_data' = a_data
            /\ indicators' = ind
            /\ news_context' = news
            /\ rule_results' = Surviving(engine_rules, a_data, ind, news)
            /\ rule_weights' = RuleWeights(engine_rules)
            /\ advice' = generate_advice_from_data(engine_rules, a_data, ind, news)
            /\ UNCHANGED <<generator_vars, backtest_vars, engine_rules, rule_result, bt_result, daily_equity, metrics>>

\* AdviceEngine.generate_advice(asset, news_context)
GenerateAdvice ==
    /\ op = "init"
    /\ \E latest_price \in {NoData} \cup {PriceData(Num(c), Num(p)) : c \in {11, 102}, p \in {-1, 1}},
       latest_indicators \in {NoData} \cup
           {IndicatorData(ma[1], ma[2], ma[3], bias, vr) :
               ma \in {m \in EngineMA : m[1] # Absent},
               bias \in {None, Num(0), Num(6)}, vr \in {None, Num(7), Num(10)}},
       news \in EngineNews :
        /\ op' = "generate_advice"
        /\ asset_data' = IF latest_price.tag = "nodata" \/ latest_indicators.tag = "nodata"
                         THEN EmptyDict
                         ELSE [current_price |-> latest_price.close,
                               price_change_pct |-> latest_price.pct_chg]
        /\ indicators' = IF latest_price.tag = "nodata" \/ latest_indicators.tag = "nodata"
                         THEN EmptyDict
                         ELSE [k \in {"ma5", "ma10", "ma20", "bias_ma5", "volume_ratio"} |->
                                  latest_indicators[k]]
        /\ news_context' = news
        /\ rule_results' = Surviving(engine_rules, asset_data', indicators', news)
        /\ rule_weights' = RuleWeights(engine_rules)
        /\ advice' = generate_advice(engine_rules, latest_price, latest_indicators, news)
        /\ UNCHANGED <<generator_vars, backtest_vars, engine_rules, rule_result, bt_result, daily_equity, metrics>>

\* MetricsCalculator.calculate(result, daily_equity)
Calculate ==
    /\ op = "init"
    /\ \E initial \in CapitalValues, final \in EquityValues, days \in DayValues,
       equities \in SeqsUpTo(EquityValues, MaxEquityLen), trades \in TradeLogs :
        LET result == [ResultOf(initial, final, days, equities) EXCEPT !.trades = trades]
        IN  /\ op' = "calculate"
            /\ bt_result' = result
            /\ daily_equity' = equities
            /\ metrics' = calculate(result, equities)
        /\ UNCHANGED <<generator_vars, backtest_vars, engine_rules, asset_data, indicators, news_context,
                       rule_result, rule_results, rule_weights, advice>>

\* a call on the executor can follow construction or an earlier call
ExecutorReady == op \in {"init", "execute_signal", "reset"} /\ calls < MaxCalls

\* BacktestExecutor.execute_signal(signal, current_price, available_capital)
ExecuteSignal ==
    /\ ExecutorReady
    /\ \E signal \in ExecSignals, current_price \in ExecPrices,
          available_capital \in AvailableCapitalValues :
        LET r == execute_signal(executor, signal, current_price, available_capital)
        IN  /\ op' = "execute_signal"
            /\ executor' = r.ex
            /\ before' = executor
            /\ last_trade' = r.out
            /\ call' = [signal |-> signal, current_price |-> current_price,
                        available_capital |-> available_capital]
            /\ calls' = calls + 1
            /\ UNCHANGED <<generator_vars, engine_rules, asset_data, indicators, news_context,
                           rule_result, rule_results, rule_weights, advice,
                           bt_result, daily_equity, metrics, backtest>>

\* BacktestExecutor.reset()
Reset ==
    /\ ExecutorReady
    /\ op' = "reset"
    /\ executor' = reset(executor)
    /\ before' = executor
    /\ last_trade' = Ret(NoTrade)
    /\ call' = NoArgs
    /\ calls' = calls + 1
    /\ UNCHANGED <<generator_vars, engine_rules, asset_data, indicators, news_context,
                   rule_result, rule_results, rule_weights, advice,
                   bt_result, daily_equity, metrics, backtest>>

NextExecutor == ExecuteSignal \/ Reset

\* BacktestEngine.run_full_backtest(signals, price_data, start_date, end_date)
\* on an engine just constructed: run_backtest, then calculate_metrics
RunFullBacktest ==
    /\ op = "init"
    /\ \E signals \in SeqsUpTo(Signals, MaxSignals), price_data \in PriceDataValues,
          range \in DateRanges :
        LET engine == [initial_capital |-> executor.initial_capital, executor |-> executor]
            r == run_backtest(engine, signals, price_data, range[1], range[2])
            m == IF r.out.exc # "" THEN Raise(r.out.exc) ELSE calculate_metrics(r.out.value)
        IN  /\ op' = "run_full_backtest"
            /\ backtest' = [signals |-> signals, price_data |-> price_data,
                            start_date |-> range[1], end_date |-> range[2],
                            exc |-> r.out.exc,
                            returned |-> IF r.out.exc # "" THEN <<>> ELSE r.out.value]
            /\ executor' = r.ex
            /\ before' = executor
            /\ bt_result' = IF r.out.exc # "" THEN bt_result ELSE r.out.value
            /\ daily_equity' = IF r.out.exc # "" THEN daily_equity
                               ELSE EquityList(r.out.value)
            /\ metrics' = m
            /\ UNCHANGED <<generator_vars, last_trade, call, calls, engine_rules, asset_data, indicators,
                           news_context, rule_result, rule_results, rule_weights, advice>>

NextBacktest == RunFullBacktest

\* The caller keeps the BacktestResult of run_full_backtest in bt_result and
\* makes one more call on engine.executor.  The result's
\* trades (self.executor.trades.copy()) and daily_equity are lists of their
\* own; its positions list (list(self.positions.values())) holds the
\* executor's Position objects themselves.

\* the held result after the executor went from its state at the return of
\* run_backtest to ex: a Position object still in the executor's dict shows
\* the executor's values, one deleted from the dict keeps its last values
Aliased(result, ex) ==
    [result EXCEPT !.positions =
        [i \in 1..Len(result.positions) |->
            IF Holds(ex.positions, result.positions[i].code)
            THEN PositionOf(ex.positions, result.positions[i].code)
            ELSE result.positions[i]]]

\* a result was returned and is held by the caller
ResultHeld == op = "run_full_backtest" /\ backtest.exc = ""

\* engine.executor.execute_signal(signal, current_price) after
\* run_full_backtest returned, available_capital left at its default None
ExecuteSignalAfterRun ==
    /\ ResultHeld
    /\ \E signal \in ExecSignals, current_price \in ExecPrices,
          available_capital \in {None} :
        LET r == execute_signal(executor, signal, current_price, available_capital)
        IN  /\ op' = "execute_signal_after_run"
            /\ executor' = r.ex
            /\ before' = executor
            /\ last_trade' = r.out
            /\ call' = [signal |-> signal, current_price |-> current_price,
                        available_capital |-> available_capital]
            /\ bt_result' = Aliased(bt_result, r.ex)
            /\ UNCHANGED <<generator_vars, calls, engine_rules, asset_data, indicators,
                           news_context, rule_result, rule_results, rule_weights, advice,
                           daily_equity, metrics, backtest>>

\* engine.executor.reset() after run_full_backtest returned: positions.clear()
\* empties the dict and leaves the Position objects as they are
ResetAfterRun ==
    /\ ResultHeld
    /\ op' = "reset_after_run"
    /\ executor' = reset(executor)
    /\ before' = executor
    /\ UNCHANGED <<generator_vars, last_trade, call, calls, engine_rules, asset_data,
                   indicators, news_context, rule_result, rule_results, rule_weights,
                   advice, bt_result, daily_equity, metrics, backtest>>

NextHeld == ExecuteSignalAfterRun \/ ResetAfterRun

\* SignalGenerator.generate_from_advice(advice)
GenerateFromAdvice ==
    /\ op = "init"
    /\ \E adv \in AdviceValues :
        /\ op' = "generate_from_advice"
        /\ advices' = <<adv>>
        /\ generated' = generate_from_advice(adv)
        /\ UNCHANGED <<backtest_vars, engine_rules, asset_data, indicators, news_context,
                       rule_result, rule_results, rule_weights, advice, bt_result,
                       daily_equity, metrics>>

\* SignalGenerator.generate_batch(advice_list)
GenerateBatch ==
    /\ op = "init"
    /\ \E advice_list \in SeqsUpTo(AdviceValues, MaxAdvices) :
        /\ op' = "generate_batch"
        /\ advices' = advice_list
        /\ generated' = generate_batch(advice_list)
        /\ UNCHANGED <<backtest_vars, engine_rules, asset_data, indicators, news_context,
                       rule_result, rule_results, rule_weights, advice, bt_result,
                       daily_equity, metrics>>

NextGenerator == GenerateFromAdvice \/ GenerateBatch

NextRules == EvaluateTrend \/ EvaluateBias \/ EvaluateVolume \/ EvaluateSupport \/ EvaluateRisk

NextAgg == Aggregate

NextEngine == GenerateAdviceFromData \/ GenerateAdvice

NextMetrics == Calculate

Next == NextRules \/ NextAgg \/ NextEngine \/ NextMetrics \/ NextExecutor \/ NextBacktest
          \/ NextGenerator \/ NextHeld

\* the rules and the engine that runs them
SpecAdvice == Init /\ [][NextRules \/ NextEngine]_vars

\* the rules, one evaluate call at a time
SpecRules == InitWith(DefaultRules) /\ [][NextRules]_vars

\* the aggregator on lists of results
SpecAgg == InitWith(DefaultRules) /\ [][NextAgg]_vars

\* the engine on asset data
SpecEngine == Init /\ [][NextEngine]_vars

\* the metrics calculator
SpecMetrics == InitWith(DefaultRules) /\ [][NextMetrics]_vars

\* the operations that divide: rule.evaluate, aggregate and calculate
SpecDivisions == InitWith(DefaultRules) /\ [][NextRules \/ NextAgg \/ NextMetrics]_vars

\* the state in which the executor is ex and nothing else was called
InitExecutorWith(ex) ==
        /\ op = "init"
        /\ engine_rules = DefaultRules
        /\ asset_data = EmptyDict
        /\ indicators = EmptyDict
        /\ news_context = NoNews
        /\ rule_result = NoCall
        /\ rule_results = <<>>
        /\ rule_weights = EmptyDict
        /\ advice = NoAdvice
        /\ bt_result = ResultOf(1000, 1000, 0, <<>>)
        /\ daily_equity = <<>>
        /\ metrics = Ret("none")
        /\ executor = ex
        /\ before = ex
        /\ last_trade = Ret(NoTrade)
        /\ call = NoArgs
        /\ calls = 0
        /\ backtest = NoBacktest
        /\ advices = <<>>
        /\ generated = <<>>

InitExecutor ==
    \E initial_capital \in InitialCapitalValues :
        InitExecutorWith(BacktestExecutor(initial_capital))

\* an engine whose executor has been used before the backtest: a BUY of
\* 600000 at 10 was executed on it
InitUsedExecutor ==
    \E initial_capital \in InitialCapitalValues :
        InitExecutorWith(execute_signal(BacktestExecutor(initial_capital),
                                        TradingSignal("600000", "BUY", 1), 10, None).ex)

\* the executor under sequences of execute_signal and reset calls
SpecExecutor == InitExecutor /\ [][NextExecutor]_vars

\* a backtest result held by the caller across one more call, on an engine
\* constructed with the default capital
SpecHeld == InitExecutorWith(BacktestExecutor(DefaultCapital))
                /\ [][NextBacktest \/ NextHeld]_vars

\* the signal generator on advices and advice lists
SpecGenerator == InitWith(DefaultRules) /\ [][NextGenerator]_vars

\* the backtest engine: one run_full_backtest on an engine whose executor is
\* new or has been used
SpecBacktest == (InitExecutor \/ InitUsedExecutor) /\ [][NextBacktest]_vars

Spec == Init /\ [][Next]_vars

---------------------------------------------------------------------------
(* Properties                                                              *)

Aggregated == op = "aggregate" /\ rule_results # <<>>

\* C1: for a non-empty list of results the category of the advice agrees
\* with its score: >= 80 strong-buy; 65..79 buy or strong-buy; 50..64 neither
\* sell nor strong-sell; 35..49 wait; < 35 sell or strong-sell.
C1_ScoreCategoryConsistent ==
    Aggregated =>
        /\ advice.score >= 80 => advice.advice_type = "STRONG_BUY"
        /\ (advice.score >= 65 /\ advice.score < 80) =>
                advice.advice_type \in {"BUY", "STRONG_BUY"}
        /\ (advice.score >= 50 /\ advice.score < 65) =>
                advice.advice_type \notin {"SELL", "STRONG_SELL"}
        /\ (advice.score >= 35 /\ advice.score < 50) => advice.advice_type = "WAIT"
        /\ advice.score < 35 => advice.advice_type \in {"SELL", "STRONG_SELL"}

\* a single SELL result of score >= 80: the vote says sell, the advice strong-buy
C1_Witness ==
    /\ Aggregated
    /\ Len(rule_results) = 1
    /\ rule_results[1].advice_type = "SELL"
    /\ advice.score >= 80
    /\ advice.advice_type = "STRONG_BUY"

\* a / b rounded to the nearest integer, halves to the even one (Python's
\* round), for b > 0
RoundDiv(a, b) ==
    LET q == a \div b
        r == a - q * b
    IN  IF 2 * r < b THEN q
        ELSE IF 2 * r > b THEN q + 1
        ELSE IF q % 2 = 0 THEN q ELSE q + 1

\* C2: final_score is total_score / total_weight rounded to the nearest
\* integer (not truncated), and 0 when total_weight is 0.
C2_FinalScoreRounded ==
    Aggregated =>
        /\ total_weight(rule_results, rule_weights) > 0 =>
              advice.score = RoundDiv(total_score(rule_results, rule_weights),
                                      total_weight(rule_results, rule_weights))
        /\ total_weight(rule_results, rule_weights) = 0 => advice.score = 0

RECURSIVE VoteSum(_, _, _, _)
\* the sum of the weights of the results whose field has the value key
VoteSum(results, weights, fld, key) ==
    IF results = <<>> THEN 0
    ELSE VoteSum(Tail(results), weights, fld, key)
         + (IF Head(results)[fld] = key
            THEN WeightOf(weights, Head(results).rule_name) ELSE 0)

\* the position of the first result whose field has the value key
FirstSeen(results, fld, key) ==
    CHOOSE i \in 1..Len(results) :
        /\ results[i][fld] = key
        /\ \A j \in 1..(i - 1) : results[j][fld] # key

\* key has the highest sum of weights, and among the keys with that sum the
\* earliest first occurrence
WinsVote(results, weights, fld, key) ==
    /\ \E i \in 1..Len(results) : results[i][fld] = key
    /\ \A i \in 1..Len(results) :
          LET other == results[i][fld]
          IN  \/ VoteSum(results, weights, fld, other) < VoteSum(results, weights, fld, key)
              \/ /\ VoteSum(results, weights, fld, other) = VoteSum(results, weights, fld, key)
                 /\ FirstSeen(results, fld, key) <= FirstSeen(results, fld, other)

\* C4: the vote picks the category with the highest sum of weights, the
\* earliest seen on a tie; the confidence is picked the same way and the
\* score override leaves it alone.
C4_VoteFirstSeenWins ==
    Aggregated =>
        /\ WinsVote(rule_results, rule_weights, "confidence", advice.confidence)
        /\ \E voted \in AdviceType :
              /\ WinsVote(rule_results, rule_weights, "advice_type", voted)
              /\ advice.advice_type = ScoreOverride(advice.score, voted)

\* three results: the first two differ in category and in confidence, the
\* third sides with the second but has weight 0, so both votes tie and the
\* first wins; the score override then replaces the category only
C4_Witness ==
    /\ Aggregated
    /\ Len(rule_results) = 3
    /\ rule_results[1].advice_type # rule_results[2].advice_type
    /\ rule_results[1].confidence # rule_results[2].confidence
    /\ rule_results[3].advice_type = rule_results[2].advice_type
    /\ rule_results[3].confidence = rule_results[2].confidence
    /\ VoteSum(rule_results, rule_weights, "advice_type", rule_results[1].advice_type)
         = VoteSum(rule_results, rule_weights, "advice_type", rule_results[2].advice_type)
    /\ VoteSum(rule_results, rule_weights, "confidence", rule_results[1].confidence)
         = VoteSum(rule_results, rule_weights, "confidence", rule_results[2].confidence)
    /\ VoteSum(rule_results, rule_weights, "confidence", rule_results[1].confidence) > 0
    /\ advice.confidence = rule_results[1].confidence
    /\ advice.advice_type \notin {rule_results[1].advice_type, rule_results[2].advice_type}

\* the inputs of C5: price 11 on MA5 11 > MA10 10 > MA20 9, bias 0, volume
\* ratio 1.0, no news, the five default rules, any price change
C5_Scenario ==
    /\ op = "generate_advice_from_data"
    /\ engine_rules = DefaultRules
    /\ "current_price" \in DOMAIN asset_data /\ asset_data["current_price"] = Num(11)
    /\ indicators = MkDict([ma5 |-> Num(11), ma10 |-> Num(10), ma20 |-> Num(9),
                            bias_ma5 |-> Num(0), volume_ratio |-> Num(10)])
    /\ news_context = NoNews

\* what the five rules return in that scenario
C5_RuleResults ==
    /\ Len(rule_results) = 5
    /\ [i \in 1..5 |-> <<rule_results[i].rule_name, rule_results[i].score,
                         rule_results[i].advice_type>>]
         = << <<"TrendRule", 40, "BUY">>, <<"BiasRule", 28, "BUY">>,
              <<"VolumeRule", 12, "HOLD">>, <<"SupportRule", 5, "BUY">>,
              <<"RiskRule", 10, "HOLD">> >>

\* C5 as stated: in the scenario the rules return Trend 40 buy, Bias 28 buy,
\* Volume 12 hold, Support 5 buy, Risk 10 hold, the score is 19 and the
\* category is wait.
C5_ScenarioGivesWait ==
    C5_Scenario => /\ C5_RuleResults
                   /\ advice.score = 19
                   /\ advice.advice_type = "WAIT"

\* C5 amended: same rule results and score 19, and the category is sell
\* (19 < 35 and the vote said buy).
C5_ScenarioGivesSell ==
    C5_Scenario => /\ C5_RuleResults
                   /\ advice.score = 19
                   /\ advice.advice_type = "SELL"

C5_Witness == C5_Scenario /\ advice.score = 19 /\ advice.advice_type = "SELL"

NonNegativeWeights ==
    \A i \in 1..Len(rule_results) : WeightOf(rule_weights, rule_results[i].rule_name) >= 0

RuleOutcomes == RunRules(engine_rules, asset_data, indicators, news_context)

\* the positions of the rules that did not raise
Survivors == {i \in 1..Len(engine_rules) : RuleOutcomes[i].exc = ""}

RECURSIVE SumOver(_, _)
\* the sum of f[i] over the positions i of I
SumOver(f, I) ==
    IF I = {} THEN 0
    ELSE LET i == CHOOSE j \in I : TRUE
         IN  f[i] + SumOver(f, I \ {i})

SurvivorWeight == [i \in Survivors |-> RuleWeights(engine_rules)[engine_rules[i].name]]

SurvivorScore == [i \in Survivors |-> RuleOutcomes[i].value.score * SurvivorWeight[i]]

\* the results of the rules that did not raise, in rule order
SurvivorResults ==
    [k \in 1..Cardinality(Survivors) |->
        LET i == CHOOSE j \in Survivors : Cardinality({h \in Survivors : h < j}) = k - 1
        IN  RuleOutcomes[i].value]

EngineCalled ==
    \/ op = "generate_advice_from_data"
    \/ op = "generate_advice" /\ asset_data # EmptyDict

\* C7: a rule that raises is left out: the advice names exactly the rules that
\* did not raise, in order, its score averages their scores over their
\* weights only, its vote counts them only; when every rule raises the advice
\* is wait, low confidence, score 0, with the single reason 'no rule results'.
C7_FailedRulesSkipped ==
    EngineCalled =>
        /\ advice = aggregate(SurvivorResults, Get(asset_data, "current_price", 0),
                              RuleWeights(engine_rules))
        /\ Len(advice.rule_sources) = Cardinality(Survivors)
        /\ \A k \in 1..Len(advice.rule_sources) :
              \E i \in Survivors :
                 /\ engine_rules[i].name = advice.rule_sources[k]
                 /\ Cardinality({j \in Survivors : j < i}) = k - 1
        /\ Survivors # {} =>
              /\ advice.score =
                    IF SumOver(SurvivorWeight, Survivors) > 0
                    THEN TruncDiv(SumOver(SurvivorScore, Survivors),
                                  SumOver(SurvivorWeight, Survivors))
                    ELSE 0
              /\ \E i \in Survivors :
                    advice.confidence = RuleOutcomes[i].value.confidence
        /\ Survivors = {} =>
              /\ advice.advice_type = "WAIT"
              /\ advice.confidence = "LOW"
              /\ advice.score = 0
              /\ advice.reasons = <<"no rule results">>

\* every rule of the engine raised
C7_Witness ==
    /\ op = "generate_advice_from_data"
    /\ Survivors = {}
    /\ Len(engine_rules) >= 2
    /\ advice.reasons = <<"no rule results">>

\* some rules raised, others did not, and the advice has a positive score
C7_PartialFailure ==
    /\ op = "generate_advice_from_data"
    /\ Survivors # {}
    /\ Cardinality(Survivors) < Len(engine_rules)
    /\ advice.score > 0

AssetFields == {"current_price", "price_change_pct"}

IndicatorFields == {"ma5", "ma10", "ma20", "bias_ma5", "volume_ratio"}

\* the dict d with every field of fields that is absent or null set to 0
ZeroFill(d, fields) ==
    [k \in fields |-> IF k \in DOMAIN d /\ ~IsNone(d[k]) THEN d[k] ELSE Num(0)]

\* C8: a rule given a dict in which a field is absent or null returns what it
\* returns when the field is 0, and does not raise.
C8_AbsentOrNullIsZero ==
    op = "evaluate" =>
        /\ rule_result.out.exc = ""
        /\ rule_result.out = Evaluate(Rule(rule_result.rule, 1),
                                      ZeroFill(asset_data, AssetFields),
                                      ZeroFill(indicators, IndicatorFields),
                                      news_context)

\* C9: no division raises: RuleAggregator.aggregate with total weight 0
\* gives score 0; TrendRule.evaluate with MA20 = 0 or MA5 = 0 does not
\* raise ZeroDivisionError; MetricsCalculator.calculate does not raise it
\* with initial_capital 0, a zero-day range or returns of zero deviation.
C9_DivisionsGuarded ==
    /\ (Aggregated /\ total_weight(rule_results, rule_weights) = 0) => advice.score = 0
    /\ (op = "evaluate" /\ rule_result.rule = "TrendRule") =>
           rule_result.out.exc # "ZeroDivisionError"
    /\ op = "calculate" => metrics.exc # "ZeroDivisionError"

\* C10: BiasRule.evaluate with bias_ma5 >= 5 returns wait with score 5 and a
\* risk factor, never buy or strong-buy, whatever the other inputs.
C10_NoChase ==
    ( /\ op = "evaluate"
      /\ rule_result.rule = "BiasRule"
      /\ "bias_ma5" \in DOMAIN indicators
      /\ indicators["bias_ma5"].tag = "num"
      /\ indicators["bias_ma5"].v >= BIAS_THRESHOLD ) =>
        /\ rule_result.out.exc = ""
        /\ rule_result.out.value.advice_type = "WAIT"
        /\ rule_result.out.value.advice_type \notin {"BUY", "STRONG_BUY"}
        /\ rule_result.out.value.score = 5
        /\ rule_result.out.value.risk_factors # <<>>

\* bias_ma5 exactly 5, with a price and an MA5 in the dicts
C10_Witness ==
    /\ op = "evaluate"
    /\ rule_result.rule = "BiasRule"
    /\ indicators = MkDict([bias_ma5 |-> Num(5), ma5 |-> Num(10)])
    /\ asset_data = MkDict([current_price |-> Num(11)])
    /\ rule_result.out.exc = ""
    /\ rule_result.out.value.advice_type = "WAIT"

\* C11: a rule that returns gives a score in 0..100, a category of AdviceType
\* and a confidence of ConfidenceLevel.
C11_RuleResultInRange ==
    (op = "evaluate" /\ rule_result.out.exc = "") =>
        /\ rule_result.out.value.score \in 0..100
        /\ rule_result.out.value.advice_type \in AdviceType
        /\ rule_result.out.value.confidence \in ConfidenceLevel

\* four risk keywords in the news: 10 - 3*4 is negative and the score is 0
C11_Witness ==
    /\ op = "evaluate"
    /\ rule_result.rule = "RiskRule"
    /\ rule_result.out.exc = ""
    /\ Len(rule_result.out.value.risk_factors) = 4
    /\ rule_result.out.value.score = 0

\* the risk keywords found in the text when letter case is ignored
RiskKeywordsAnyCase(text) ==
    {i \in 1..Len(RISK_KEYWORDS) : Contains(Lower(text), Lower(RISK_KEYWORDS[i].tokens))}

\* C12: every risk keyword the news contains in any letter case, 'ST' and
\* '*ST' included, is counted: the score is max(0, 10 - 3*risk_count), the
\* category wait for one match and sell for two or more.
C12_RiskKeywordsCaseInsensitive ==
    ( /\ op = "evaluate"
      /\ rule_result.rule = "RiskRule"
      /\ news_context # NoNews
      /\ RiskKeywordsAnyCase(news_context) # {} ) =>
        LET risk_count == Cardinality(RiskKeywordsAnyCase(news_context))
        IN  /\ rule_result.out.exc = ""
            /\ Len(rule_result.out.value.risk_factors) = risk_count
            /\ rule_result.out.value.score = Max(0, 10 - 3 * risk_count)
            /\ rule_result.out.value.advice_type =
                  IF risk_count = 1 THEN "WAIT" ELSE "SELL"

\* the last call was execute_signal with a signal of this type
Executed(type) == op = "execute_signal" /\ call.signal.signal_type = type

\* C13: a BUY at price p > 0 with available_capital left out and cash c buys
\* q = floor(c*0.8/p/100)*100 shares, a multiple of 100; for q >= 100 the
\* trade returned has quantity q and amount q*p and the cash becomes c - q*p;
\* for q < 100 no trade is returned.
C13_BuyQuantityAndCash ==
    [][ ( /\ Executed("BUY")'
          /\ call'.current_price > 0
          /\ IsNone(call'.available_capital) ) =>
        LET c == executor.current_capital
            p == call'.current_price
            q == ((c * 8) \div (p * 1000)) * 100
        IN  /\ q % 100 = 0
            /\ q >= 100 =>
                  /\ last_trade'.exc = ""
                  /\ last_trade'.value.type = "buy"
                  /\ last_trade'.value.quantity = q
                  /\ last_trade'.value.amount = q * p
                  /\ executor'.current_capital = c - q * p
            /\ q < 100 => last_trade' = Ret(NoTrade) ]_vars

\* a second buy for a code already held, paid from the cash the first left
C13_Witness ==
    /\ Executed("BUY")
    /\ IsNone(call.available_capital)
    /\ last_trade.exc = ""
    /\ last_trade.value.type = "buy"
    /\ Len(executor.trades) = 2
    /\ executor.trades[1].type = "buy"
    /\ executor.trades[1].code = last_trade.value.code
    /\ last_trade.value.quantity = 1600
    /\ executor.current_capital = 4000

\* int(x*0.8/p/100)*100 for p > 0, truncating toward zero
BuyQuantity(x, p) ==
    100 * (IF x >= 0 THEN (x * 8) \div (p * 1000) ELSE -((-x * 8) \div (p * 1000)))

\* the last call was an execute_signal that the executor, as it was before
\* the call, could not execute: a SELL or CLOSE for a code not held, a HOLD,
\* or a BUY whose quantity comes out below 100
Unexecutable ==
    /\ op = "execute_signal"
    /\ \/ /\ call.signal.signal_type \in {"SELL", "CLOSE"}
          /\ \A i \in 1..Len(before.positions) : before.positions[i].code # call.signal.code
       \/ call.signal.signal_type = "HOLD"
       \/ /\ call.signal.signal_type = "BUY"
          /\ call.current_price > 0
          /\ BuyQuantity(IF IsNone(call.available_capital) THEN before.current_capital
                         ELSE call.available_capital.v,
                         call.current_price) < 100

\* C14: a signal that cannot be executed returns no trade and leaves cash,
\* positions and trade log as they were; the same call made again does the
\* same.
C14_UnexecutableIsNoOp ==
    Unexecutable =>
        /\ last_trade = Ret(NoTrade)
        /\ executor = before
        /\ execute_signal(executor, call.signal, call.current_price, call.available_capital)
             = Outcome(before, Ret(NoTrade))

\* a HOLD signal for a code that is held, on an executor with two trades made
C14_Witness ==
    /\ Unexecutable
    /\ call.signal.signal_type = "HOLD"
    /\ Holds(before.positions, call.signal.code)
    /\ Len(before.trades) = 2
    /\ executor = before

\* a SELL for a code that is not held while another code is
C14_SellWithoutPosition ==
    /\ Unexecutable
    /\ call.signal.signal_type = "SELL"
    /\ before.positions # <<>>
    /\ executor = before

\* a BUY that the cash left cannot pay for
C14_BuyBelowOneLot ==
    /\ Unexecutable
    /\ call.signal.signal_type = "BUY"
    /\ before.trades # <<>>
    /\ before.current_capital > 0
    /\ executor = before

\* C15: reset() after any sequence of calls leaves cash = initial_capital, no
\* positions and no trades: the executor is the freshly constructed one, so
\* every later call behaves as on a new executor.
C15_ResetRestores ==
    op = "reset" =>
        /\ executor.current_capital = before.initial_capital
        /\ executor.positions = <<>>
        /\ executor.trades = <<>>
        /\ executor = BacktestExecutor(before.initial_capital)

\* reset of an executor that holds a position and has sold another
C15_Witness ==
    /\ op = "reset"
    /\ before.positions # <<>>
    /\ Len(before.trades) = 3
    /\ before.current_capital # before.initial_capital
    /\ executor.trades = <<>>

\* C16: every position held has a quantity > 0 that is a multiple of 100,
\* each code is held once, and an executed SELL or CLOSE leaves no entry for
\* its code.
C16_PositionsWholeLots ==
    /\ \A i \in 1..Len(executor.positions) :
          /\ executor.positions[i].quantity > 0
          /\ executor.positions[i].quantity % 100 = 0
          /\ \A j \in 1..Len(executor.positions) :
                executor.positions[j].code = executor.positions[i].code => j = i
    /\ ( /\ op = "execute_signal"
         /\ call.signal.signal_type \in {"SELL", "CLOSE"}
         /\ last_trade # Ret(NoTrade) ) =>
            /\ \A i \in 1..Len(executor.positions) :
                  executor.positions[i].code # call.signal.code
            /\ last_trade.value.quantity = PositionOf(before.positions, call.signal.code).quantity
            /\ Len(executor.positions) = Len(before.positions) - 1

\* a CLOSE of a position built by two buys, while the other code stays held
C16_Witness ==
    /\ op = "execute_signal"
    /\ call.signal.signal_type = "CLOSE"
    /\ last_trade # Ret(NoTrade)
    /\ last_trade.value.quantity = 9600
    /\ Len(executor.positions) = 1
    /\ Len(before.positions) = 2

\* C17: an execute_signal call leaves the trade log as it was or appends one
\* trade, the one it returns, at the end; the trades already there stay as
\* they were, in place.
C17_TradeLogAppendOnly ==
    op = "execute_signal" =>
        \/ /\ executor.trades = before.trades
           /\ last_trade \in {Ret(NoTrade), Raise("ZeroDivisionError")}
        \/ /\ last_trade.exc = ""
           /\ last_trade.value # NoTrade
           /\ Len(executor.trades) = Len(before.trades) + 1
           /\ SubSeq(executor.trades, 1, Len(before.trades)) = before.trades
           /\ executor.trades[Len(executor.trades)] = last_trade.value

\* a fourth trade appended to a log of three
C17_Witness ==
    /\ op = "execute_signal"
    /\ Len(before.trades) = 3
    /\ Len(executor.trades) = 4
    /\ executor.trades[4].type = "sell"
    /\ SubSeq(executor.trades, 1, 3) = before.trades

\* the last call was a run_full_backtest with exactly two signals, signals[i]
\* a BUY and signals[j] a SELL of the same code at a later date, both dates
\* in range and priced for the code, the SELL price above the BUY price and
\* the BUY executable with the engine's initial capital
BuyThenSell(i, j) ==
    LET buy == backtest.signals[i]
        sell == backtest.signals[j]
        price_data == backtest.price_data
    IN  /\ buy.signal_type = "BUY"
        /\ sell.signal_type = "SELL"
        /\ buy.code = sell.code
        /\ buy.date < sell.date
        /\ buy.date >= backtest.start_date
        /\ sell.date <= backtest.end_date
        /\ buy.date \in DOMAIN price_data
        /\ sell.date \in DOMAIN price_data
        /\ buy.code \in DOMAIN price_data[buy.date]
        /\ sell.code \in DOMAIN price_data[sell.date]
        /\ price_data[buy.date][buy.code] > 0
        /\ price_data[sell.date][sell.code] > price_data[buy.date][buy.code]
        /\ BuyQuantity(before.initial_capital, price_data[buy.date][buy.code]) >= 100

RoundTrip ==
    /\ op = "run_full_backtest"
    /\ Len(backtest.signals) = 2
    /\ BuyThenSell(1, 2) \/ BuyThenSell(2, 1)

\* C18: a backtest of exactly one BUY and one later SELL of the same code,
\* both in range and priced, the SELL price higher and the BUY executable
\* (quantity >= 100), gives exactly 2 trades, a buy then a sell of the same
\* quantity, with sell amount - buy amount > 0, no open position at the end,
\* and metrics with winning_trades = 1, losing_trades = 0 and win_rate = 100.
C18_BuyThenSellAtHigherPrice ==
    RoundTrip =>
        /\ backtest.exc = ""
        /\ Len(bt_result.trades) = 2
        /\ bt_result.trades[1].type = "buy"
        /\ bt_result.trades[2].type = "sell"
        /\ bt_result.trades[1].quantity = bt_result.trades[2].quantity
        /\ bt_result.trades[1].quantity >= 100
        /\ bt_result.trades[2].amount - bt_result.trades[1].amount > 0
        /\ bt_result.positions = <<>>
        /\ executor.positions = <<>>
        /\ executor.trades = bt_result.trades
        /\ metrics.exc = ""
        /\ metrics.value.total_trades = 1
        /\ metrics.value.winning_trades = 1
        /\ metrics.value.losing_trades = 0
        /\ metrics.value.win_rate = Frac(100, 1)

\* the SELL listed before the BUY it follows in time: 200 shares bought at 10
\* with a capital of 2500 and sold at 12
C18_Witness ==
    /\ RoundTrip
    /\ BuyThenSell(2, 1)
    /\ before.initial_capital = 2500
    /\ Len(bt_result.trades) = 2
    /\ bt_result.trades[1].amount = 2000
    /\ bt_result.trades[2].amount = 2400
    /\ bt_result.final_capital = 2900
    /\ metrics.value.win_rate = Frac(100, 1)

\* the equity list of the last calculate call is strictly increasing
StrictlyIncreasing ==
    \A i \in 1..(Len(daily_equity) - 1) : daily_equity[i] < daily_equity[i + 1]

\* C19: for every equity series given to MetricsCalculator, max_drawdown is
\* at least 0 and at most 100, and it is exactly 0 when the series is
\* strictly increasing.
C19_MaxDrawdownRange ==
    (op = "calculate" /\ bt_result.initial_capital # 0) =>
        /\ metrics.exc = ""
        /\ ~FracLess(metrics.value.max_drawdown, Frac(0, 1))
        /\ ~FracLess(Frac(100, 1), metrics.value.max_drawdown)
        /\ StrictlyIncreasing => metrics.value.max_drawdown = Frac(0, 1)

\* the advices of the last call that are neither hold nor wait, in order
Actionable ==
    LET acts(adv) == adv.advice_type \notin {"HOLD", "WAIT"}
    IN  SelectSeq(advices, acts)

\* signal is the BUY or SELL signal the generator makes of adv
SignalOf(signal, adv) ==
    /\ signal # NoSignal
    /\ adv.advice_type \in {"STRONG_BUY", "BUY"} => signal.signal_type = "BUY"
    /\ adv.advice_type \in {"REDUCE", "SELL", "STRONG_SELL"} => signal.signal_type = "SELL"
    /\ signal.signal_type \in {"BUY", "SELL"}
    /\ signal.code = adv.code
    /\ signal.date = adv.advice_date
    /\ signal.rule_params.advice_type = adv.advice_type

\* C20: strong-buy and buy give a BUY signal, reduce, sell and strong-sell a
\* SELL signal, hold and wait no signal; generate_batch returns, in input
\* order, exactly one signal for each advice that is neither hold nor wait,
\* so its list holds no null, no HOLD signal and no CLOSE signal.
C20_AdviceToSignal ==
    /\ op = "generate_from_advice" =>
           IF advices[1].advice_type \in {"HOLD", "WAIT"}
           THEN generated = NoSignal
           ELSE SignalOf(generated, advices[1])
    /\ op = "generate_batch" =>
           /\ Len(generated) = Len(Actionable)
           /\ \A i \in 1..Len(generated) : SignalOf(generated[i], Actionable[i])
           /\ \A i \in 1..Len(generated) :
                  /\ generated[i] # NoSignal
                  /\ generated[i].signal_type \notin {"HOLD", "CLOSE"}

\* a batch of a sell, a hold and a strong-buy advice: two signals, SELL then BUY
C20_Witness ==
    /\ op = "generate_batch"
    /\ Len(advices) = 3
    /\ advices[1].advice_type = "SELL"
    /\ advices[2].advice_type = "HOLD"
    /\ advices[3].advice_type = "STRONG_BUY"
    /\ advices[1].code # advices[3].code
    /\ Len(generated) = 2
    /\ generated[1].signal_type = "SELL"
    /\ generated[1].code = advices[1].code
    /\ generated[2].signal_type = "BUY"
    /\ generated[2].code = advices[3].code

\* the last call was made on the engine or its executor while the caller held
\* the result of run_full_backtest
LaterCall == op \in {"execute_signal_after_run", "reset_after_run"}

\* C21: a BacktestResult is immutable after run_backtest returns it: no later
\* operation on the same engine or its executor (another run_backtest, a
\* direct execute_signal, reset) changes the result's trade list, its
\* position list, the quantity and average cost of its positions, or its
\* equity curve.
C21_ResultImmutable ==
    LaterCall => bt_result = backtest.returned

\* signals[i] of the last run lies in [start_date, end_date] and price_data
\* has an entry for its date and code
Eligible(i) ==
    LET signal == backtest.signals[i]
    IN  /\ signal.date >= backtest.start_date
        /\ signal.date <= backtest.end_date
        /\ signal.date \in DOMAIN backtest.price_data
        /\ signal.code \in DOMAIN backtest.price_data[signal.date]

EligibleSet == {i \in 1..Len(backtest.signals) : Eligible(i)}

\* the eligible signals by index, in non-decreasing date order, input order
\* kept among equal dates
EligibleOrder ==
    CHOOSE p \in [1..Cardinality(EligibleSet) -> EligibleSet] :
        \A a, b \in DOMAIN p :
            a < b => \/ backtest.signals[p[a]].date < backtest.signals[p[b]].date
                     \/ /\ backtest.signals[p[a]].date = backtest.signals[p[b]].date
                        /\ p[a] < p[b]

RECURSIVE Replay(_, _)
\* the executor after executing the signals order[k..] one after the other
\* from loop.ex, each at its day's price for its code, an equity value taken
\* after each one; an exception ends the run
Replay(loop, k) ==
    IF k > Len(EligibleOrder) \/ loop.exc # "" THEN loop
    ELSE LET signal == backtest.signals[EligibleOrder[k]]
             prices == backtest.price_data[signal.date]
             r == execute_signal(loop.ex, signal, prices[signal.code], None)
         IN  IF r.out.exc # "" THEN [ex |-> r.ex, equities |-> loop.equities, exc |-> r.out.exc]
             ELSE Replay([ex |-> r.ex,
                          equities |-> Append(loop.equities, get_total_equity(r.ex, prices)),
                          exc |-> ""], k + 1)

\* C22: run_backtest starts from a reset executor and executes exactly the
\* signals dated in [start_date, end_date] that price_data prices, in
\* non-decreasing date order whatever the input order (input order among
\* equal dates), each at the price of price_data; the equity curve is the
\* initial capital followed by one value per such signal, traded or not;
\* every other signal leaves the ledger alone and adds no equity value.
C22_ExecutesEligibleInDateOrder ==
    op = "run_full_backtest" =>
        LET fresh == BacktestExecutor(before.initial_capital)
            run == Replay([ex |-> fresh, equities |-> <<before.initial_capital>>,
                           exc |-> ""], 1)
        IN  /\ executor = run.ex
            /\ run.exc # "" => backtest.exc = run.exc
            /\ backtest.exc = "" =>
                   /\ daily_equity = run.equities
                   /\ Len(daily_equity) = 1 + Cardinality(EligibleSet)
                   /\ bt_result.trades = run.ex.trades

\* a used executor; a SELL dated 2 listed before a BUY dated 1, both executed,
\* and a third signal out of range or unpriced: two trades, three equity values
C22_Witness ==
    /\ op = "run_full_backtest"
    /\ backtest.exc = ""
    /\ before.trades # <<>>
    /\ Len(backtest.signals) = 2
    /\ backtest.signals[1].date = 2
    /\ backtest.signals[1].signal_type = "SELL"
    /\ backtest.signals[2].date = 1
    /\ backtest.signals[2].signal_type = "BUY"
    /\ EligibleOrder = <<2, 1>>
    /\ Len(bt_result.trades) = 2
    /\ Len(daily_equity) = 3

\* a run in which one signal is executed and the other is skipped
C22_WitnessSkipped ==
    /\ op = "run_full_backtest"
    /\ backtest.exc = ""
    /\ Len(backtest.signals) = 2
    /\ EligibleSet = {2}
    /\ Len(bt_result.trades) = 1
    /\ Len(daily_equity) = 2

\* the codes held by the executor
HeldCodes == {executor.positions[i].code : i \in 1..Len(executor.positions)}

\* cash plus quantity * price over the held codes that prices has
Valued(prices) ==
    LET priced == HeldCodes \cap DOMAIN prices
        worth == [c \in priced |-> PositionOf(executor.positions, c).quantity * prices[c]]
    IN  executor.current_capital + SumOf(worth, priced)

\* C23: final_capital is cash plus the sum of quantity * price over the held
\* codes found in price_data[end_date] when end_date has a price snapshot
\* (held codes missing from it add nothing), and the cash alone when end_date
\* has none; total_return is (final_capital - initial_capital) /
\* initial_capital * 100.
C23_FinalCapital ==
    (op = "run_full_backtest" /\ backtest.exc = "") =>
        /\ bt_result.final_capital =
               IF backtest.end_date \in DOMAIN backtest.price_data
               THEN Valued(backtest.price_data[backtest.end_date])
               ELSE executor.current_capital
        /\ bt_result.initial_capital = before.initial_capital
        /\ bt_result.total_return.n * bt_result.initial_capital =
               (bt_result.final_capital - bt_result.initial_capital) * 100
               * bt_result.total_return.d

\* two codes held at the end, one of them missing from the end date's prices:
\* 8000 shares of 000001 not valued, 1600 shares of 600000 valued at 10
C23_Witness ==
    /\ op = "run_full_backtest"
    /\ backtest.exc = ""
    /\ backtest.end_date \in DOMAIN backtest.price_data
    /\ HeldCodes = {"600000", "000001"}
    /\ DOMAIN backtest.price_data[backtest.end_date] = {"600000"}
    /\ executor.current_capital = 4000
    /\ bt_result.final_capital = 20000
    /\ bt_result.total_return = Frac(-80, 1)

\* no price snapshot for end_date: an open position, final_capital the cash
C23_WitnessNoSnapshot ==
    /\ op = "run_full_backtest"
    /\ backtest.exc = ""
    /\ backtest.end_date \notin DOMAIN backtest.price_data
    /\ executor.positions # <<>>
    /\ bt_result.final_capital = executor.current_capital

\* the trades of the result by type and code, and the codes with a sell
AmountsOf(type, code) ==
    LET idx == {i \in 1..Len(bt_result.trades) :
                   bt_result.trades[i].type = type /\ bt_result.trades[i].code = code}
    IN  SumOf([i \in idx |-> bt_result.trades[i].amount], idx)

SoldCodes ==
    {bt_result.trades[i].code : i \in {j \in 1..Len(bt_result.trades) :
                                          bt_result.trades[j].type = "sell"}}

ProfitOf(code) == AmountsOf("sell", code) - AmountsOf("buy", code)

\* the tallies of the claim hold in the metrics returned
TalliedPerCode ==
    LET winners == {c \in SoldCodes : ProfitOf(c) > 0}
        losers == {c \in SoldCodes : ProfitOf(c) <= 0}
        total_profit == SumOf([c \in winners |-> ProfitOf(c)], winners)
        total_loss == SumOf([c \in losers |-> -ProfitOf(c)], losers)
        closed == Cardinality(winners) + Cardinality(losers)
        m == metrics.value
    IN  /\ m.winning_trades = Cardinality(winners)
        /\ m.losing_trades = Cardinality(losers)
        /\ m.total_trades = m.winning_trades + m.losing_trades
        /\ m.win_rate = IF closed > 0 THEN Frac(Cardinality(winners) * 100, closed)
                        ELSE Frac(0, 1)
        /\ m.profit_factor = IF total_loss > 0 THEN Frac(total_profit, total_loss)
                             ELSE Frac(0, 1)

\* C24: calculate tallies wins and losses per asset code, not per trade: for
\* each code with at least one sell, profit is the sum of its sell amounts
\* minus the sum of its buy amounts; profit > 0 counts one winning trade,
\* profit <= 0 one losing trade; codes with no sell are left out;
\* total_trades = winning_trades + losing_trades; win_rate =
\* winning/(winning+losing)*100, or 0 with no closed code; profit_factor =
\* total_profit/total_loss, or 0 when total_loss is 0.
C24_TalliesPerCode ==
    (op = "calculate" /\ metrics.exc = "") => TalliedPerCode

\* the tallies are as claimed whenever every code with a sell has a positive
\* sum of sell amounts
C24_TalliesPerCodeWithPositiveSales ==
    (op = "calculate" /\ metrics.exc = "" /\ \A c \in SoldCodes : AmountsOf("sell", c) > 0)
        => TalliedPerCode

\* two round trips of one code, the first won and the second lost, counted as
\* one winning trade
C24_WitnessOneCodeTwice ==
    /\ op = "calculate"
    /\ metrics.exc = ""
    /\ Len(bt_result.trades) = 4
    /\ SoldCodes = {"600000"}
    /\ metrics.value.total_trades = 1
    /\ metrics.value.winning_trades = 1

\* the highest score each rule of the default set gives
RuleCeiling ==
    [n \in {"TrendRule", "BiasRule", "VolumeRule", "SupportRule", "RiskRule"} |->
        CASE n = "TrendRule" -> 40
          [] n = "BiasRule" -> 30
          [] n = "VolumeRule" -> 20
          [] n = "SupportRule" -> 10
          [] n = "RiskRule" -> 15]

\* C25: with the default rule set (Trend, Bias, Volume, Support, Risk, weight
\* 1 each) the engine never returns strong-buy, buy or hold: with all five
\* rules returning, the score is at most 23 and the category sell or
\* strong-sell; with any subset surviving, the score is at most 40 and the
\* category wait, sell or strong-sell; so SignalGenerator makes no BUY signal
\* of default-engine advice.
C25_DefaultEngineNeverBuys ==
    /\ (op = "evaluate" /\ rule_result.out.exc = "") =>
           rule_result.out.value.score <= RuleCeiling[rule_result.rule]
    /\ (op \in {"generate_advice_from_data", "generate_advice"}
        /\ engine_rules = DefaultRules) =>
           /\ advice.advice_type \notin {"STRONG_BUY", "BUY", "HOLD"}
           /\ advice.advice_type \in {"WAIT", "SELL", "STRONG_SELL"}
           /\ advice.score <= 40
           /\ Len(advice.rule_sources) = 5 =>
                  /\ advice.score <= 23
                  /\ advice.advice_type \in {"SELL", "STRONG_SELL"}
           /\ map_advice_to_signal(advice.advice_type) # "BUY"
           /\ generate_from_advice(AdviceOn("600000", 1, advice)).signal_type # "BUY"

\* every rule of the default engine at its best: bullish averages, a small
\* pullback, light volume on a falling day, the price on MA5, good news; the
\* score is 23, the category sell, and the generator makes a SELL signal
C25_Witness ==
    /\ op = "generate_advice_from_data"
    /\ engine_rules = DefaultRules
    /\ Len(advice.rule_sources) = 5
    /\ advice.score = 23
    /\ advice.advice_type = "SELL"
    /\ \A i \in 1..5 : rule_results[i].score = RuleCeiling[rule_results[i].rule_name]
    /\ generate_from_advice(AdviceOn("600000", 1, advice)).signal_type = "SELL"

\* the sum of the amounts of the trades of a type in the executor's log
LoggedAmount(type) ==
    LET idx == {i \in 1..Len(executor.trades) : executor.trades[i].type = type}
    IN  SumOf([i \in idx |-> executor.trades[i].amount], idx)

\* C26: in every state the executor reaches by execute_signal and reset calls,
\* the cash equals initial_capital minus the amounts of the buy trades in the
\* log plus the amounts of the sell trades in the log.
C26_CashMatchesLog ==
    executor.current_capital =
        executor.initial_capital - LoggedAmount("buy") + LoggedAmount("sell")

\* a log of four trades, buys and sells, after which the cash differs from the
\* initial capital
C26_Witness ==
    /\ op = "execute_signal"
    /\ Len(executor.trades) = 4
    /\ LoggedAmount("buy") > 0
    /\ LoggedAmount("sell") > LoggedAmount("buy")
    /\ executor.current_capital > executor.initial_capital

\* the last call was execute_signal at a positive price with
\* available_capital left out, on an executor whose cash was not negative
OwnCashCall ==
    /\ op = "execute_signal"
    /\ call.current_price > 0
    /\ IsNone(call.available_capital)
    /\ before.current_capital >= 0

\* C27: from initial_capital >= 0, execute_signal calls at positive prices
\* with available_capital left out never make the cash negative: each buy
\* spends at most 80% of the cash held before it; only a call that passes an
\* available_capital above the cash held can make the cash negative.
C27_CashNeverNegative ==
    /\ executor.initial_capital >= 0
    /\ OwnCashCall =>
           /\ executor.current_capital >= 0
           /\ (before.current_capital - executor.current_capital) * 10
                  <= before.current_capital * 8
    /\ (op = "execute_signal" /\ before.current_capital >= 0
        /\ executor.current_capital < 0) =>
           /\ ~IsNone(call.available_capital)
           /\ call.available_capital.v > before.current_capital
           /\ call.signal.signal_type = "BUY"
    /\ op = "reset" => executor.current_capital >= 0

\* a buy with the cash held: 20000 before, 1600 shares at 10, 4000 after
C27_Witness ==
    /\ OwnCashCall
    /\ call.signal.signal_type = "BUY"
    /\ before.current_capital = 20000
    /\ last_trade.value # NoTrade
    /\ last_trade.value.amount = 16000
    /\ executor.current_capital = 4000

\* a buy with available_capital 5000 on a cash of 1000: the cash is -3000
C27_WitnessNegative ==
    /\ op = "execute_signal"
    /\ before.current_capital = 1000
    /\ call.available_capital = Num(5000)
    /\ executor.current_capital = -3000

\* the indices of the trades of a code in the executor's log, and among them
\* those of a type
TradesOf(code) == {i \in 1..Len(executor.trades) : executor.trades[i].code = code}

TradesOfType(code, type) == {i \in TradesOf(code) : executor.trades[i].type = type}

\* the greatest element of a set of indices, 0 for the empty set
Last(S) == IF S = {} THEN 0 ELSE CHOOSE i \in S : \A j \in S : j <= i

\* C28: in every state reached by execute_signal and reset calls, a code is a
\* key of the position map exactly when the most recent trade of that code in
\* the log is a buy, and then the position's quantity is the sum of the
\* quantities of the code's buy trades made after its last sell (or since the
\* start); so the log never has two sells of a code without a buy between.
C28_PositionsMatchLog ==
    \A code \in Codes :
        LET last_sell == Last(TradesOfType(code, "sell"))
            since == {i \in TradesOfType(code, "buy") : i > last_sell}
        IN  /\ Holds(executor.positions, code) <=>
                   /\ TradesOf(code) # {}
                   /\ executor.trades[Last(TradesOf(code))].type = "buy"
            /\ Holds(executor.positions, code) =>
                   PositionOf(executor.positions, code).quantity =
                       SumOf([i \in since |-> executor.trades[i].quantity], since)
            /\ \A i, j \in TradesOfType(code, "sell") :
                   i < j => \E k \in TradesOfType(code, "buy") : i < k /\ k < j

\* a buy, a sell and two more buys of one code: the position holds what the
\* last two buys bought
C28_Witness ==
    /\ op = "execute_signal"
    /\ Len(executor.trades) = 4
    /\ TradesOf("600000") = 1..4
    /\ TradesOfType("600000", "sell") = {2}
    /\ Holds(executor.positions, "600000")
    /\ PositionOf(executor.positions, "600000").quantity =
           executor.trades[3].quantity + executor.trades[4].quantity
    /\ PositionOf(executor.positions, "600000").quantity # executor.trades[1].quantity

\* the price maps that give the code of the last call the price of the call:
\* the code alone, or both codes with any price for the other
PriceMapsOfCall ==
    {P \in UNION {[S -> ExecPrices] : S \in {{call.signal.code}, Codes}} :
        P[call.signal.code] = call.current_price}

C29_WitnessSell ==
    /\ op = "execute_signal"
    /\ IsNone(call.available_capital)
    /\ call.signal.signal_type = "SELL"
    /\ last_trade.value # NoTrade
    /\ executor.current_capital > before.current_capital
    /\ \A P \in PriceMapsOfCall :
           get_total_equity(executor, P) = get_total_equity(before, P)

\* C30: every snapshot of the daily_equity list of a result of run_backtest
\* carries the same date, start_date, whatever the date of the signal after
\* which the equity was taken; only the place in the list tells them apart.
C30_SnapshotsDatedStart ==
    (op = "run_full_backtest" /\ backtest.exc = "") =>
        /\ \A i \in 1..Len(bt_result.daily_equity) :
               /\ bt_result.daily_equity[i].date = backtest.start_date
               /\ DOMAIN bt_result.daily_equity[i] = {"date", "equity"}
        /\ Len(bt_result.daily_equity) = 1 + Cardinality(EligibleSet)

\* two signals executed on day 2 of a backtest that starts on day 1: three
\* snapshots dated day 1, the last two with different equity
C30_Witness ==
    /\ op = "run_full_backtest"
    /\ backtest.exc = ""
    /\ backtest.start_date = 1
    /\ Len(backtest.signals) = 2
    /\ \A i \in 1..2 : backtest.signals[i].date = 2
    /\ EligibleSet = {1, 2}
    /\ Len(bt_result.daily_equity) = 3
    /\ \A i \in 1..3 : bt_result.daily_equity[i].date = 1
    /\ bt_result.trades # <<>>

=============================================================================
